---- MODULE Spec2Model ----
(***************************************************************************)
(* UnrealMCPProxy: the backend connectivity and call-dispatch subsystem.   *)
(*                                                                         *)
(* The model follows the asyncio program: every action is the code that    *)
(* runs between two suspension points (await of an HTTP request, of a      *)
(* sleep, of a task) of one coroutine.  The coroutines are the tool calls  *)
(* (tools.call_tool), the periodic health check                            *)
(* (UnrealMCPClient._health_check_loop), the fire-and-forget compatibility *)
(* checks (server.check_compatibility_when_online),                        *)
(* UnrealMCPClient.shutdown and initialization.initialize_proxy.  The pure *)
(* functions (tools.handle_tool_result) are operators, called on bounded   *)
(* sets of inputs in a specification of their own.                         *)
(***************************************************************************)
EXTENDS Integers, Sequences, FiniteSets, TLC

(***************************************************************************)
(* Bounds of the model.                                                    *)
(***************************************************************************)
MaxRetryAttempts == 2
MaxTasks == 2

(***************************************************************************)
(* Program constants.                                                      *)
(***************************************************************************)
\* delays are in milliseconds
DEFAULT_RETRY_INITIAL_DELAY == 500
DEFAULT_RETRY_MAX_DELAY == 5000
DEFAULT_RETRY_BACKOFF_FACTOR == 2

None == "None"

\* class ConnectionState
UNKNOWN == "unknown"
ONLINE == "online"
OFFLINE == "offline"
ConnectionState == {UNKNOWN, ONLINE, OFFLINE}

(***************************************************************************)
(* Rational numbers (the retry delays are floats in the code; the model    *)
(* computes them exactly).                                                 *)
(***************************************************************************)
Rat(n, d) == [num |-> n, den |-> d]
RatLE(a, b) == a.num * b.den <= b.num * a.den
RatEq(a, b) == a.num * b.den = b.num * a.den
RatMul(a, b) == [num |-> a.num * b.num, den |-> a.den * b.den]
RatMin(a, b) == IF RatLE(a, b) THEN a ELSE b
RECURSIVE RatPow(_, _)
RatPow(a, n) == IF n = 0 THEN Rat(1, 1) ELSE RatMul(a, RatPow(a, n - 1))

(***************************************************************************)
(* The tools.  call_tool_with_retry looks the tool function up on the      *)
(* server module by name and reads its decorator flag; the catalogue       *)
(* (cached_proxy_tool_definitions) maps names to definitions, which may    *)
(* carry a readOnly field.                                                 *)
(***************************************************************************)
ToolNames == {"get_project_config", "execute_console_command", "custom_tool",
              "nonexistent_tool_xyz"}

\* getattr(func, '__tool_read_only__', None) of getattr(server_module, name, None)
get_tool_read_only_flag(tool_function) ==
    CASE tool_function = "get_project_config" -> "True"
      [] tool_function = "execute_console_command" -> "False"
      [] OTHER -> None

ServerFunction(tool_name) ==
    IF tool_name \in {"get_project_config", "execute_console_command"}
    THEN tool_name ELSE None

\* A tool definition: readOnly is "True", "False" or absent.  NoDefinition is
\* the None that dict.get returns for a name the catalogue does not hold.
Absent == "absent"
ToolDefinition(ro) == [defined |-> TRUE, readOnly |-> ro]
NoDefinition == [defined |-> FALSE, readOnly |-> Absent]

CatalogueNames == {"get_project_config", "execute_console_command", "custom_tool"}

\* The catalogues the model starts from: each maps a set of names to definitions.
Catalogues ==
    { [n \in {} |-> ToolDefinition(Absent)],
      [n \in CatalogueNames |-> ToolDefinition(Absent)],
      [n \in CatalogueNames
          |-> IF n = "custom_tool" THEN ToolDefinition("True")
              ELSE IF n = "get_project_config" THEN ToolDefinition("False")
              ELSE ToolDefinition(Absent)] }

\* cached_proxy_tool_definitions.get(tool_name) if cached_proxy_tool_definitions else None
CatalogueGet(cached, tool_name) ==
    IF DOMAIN cached # {} /\ tool_name \in DOMAIN cached
    THEN cached[tool_name] ELSE NoDefinition

is_read_only_tool_default_true(tool_name, tool_definition, tool_function) ==
    LET flag == IF tool_function # None THEN get_tool_read_only_flag(tool_function)
                ELSE None
    IN  IF tool_function # None /\ flag # None THEN flag = "True"
        ELSE IF tool_definition.defined /\ tool_definition.readOnly # Absent
             THEN tool_definition.readOnly = "True"
        ELSE TRUE

is_read_only_tool_definition_first(tool_name, tool_definition, tool_function) ==
    LET flag == IF tool_function # None THEN get_tool_read_only_flag(tool_function)
                ELSE None
    IN  IF tool_definition.defined /\ tool_definition.readOnly # Absent
        THEN tool_definition.readOnly = "True"
        ELSE flag = "True"

is_read_only_tool(tool_name, tool_definition, tool_function) ==
    LET flag == IF tool_function # None THEN get_tool_read_only_flag(tool_function)
                ELSE None
    IN  IF tool_function # None /\ flag # None THEN flag = "True"
        ELSE IF tool_definition.defined /\ tool_definition.readOnly # Absent
             THEN tool_definition.readOnly = "True"
        ELSE FALSE

is_transient_error_http(error) == error \in {"ConnectionError", "TimeoutError", "HTTPError"}

is_transient_error(error) == error \in {"ConnectionError", "TimeoutError"}

(***************************************************************************)
(* errors.create_error_response: error_code is dropped when it is falsy    *)
(* (None or the empty string).                                             *)
(***************************************************************************)
Msg(text, detail) == <<text, detail>>

create_error_response(error_message, error_code) ==
    [isError |-> TRUE, error |-> error_message,
     code |-> IF error_code \in {None, ""} THEN Absent ELSE error_code,
     value |-> None]

\* A success return of call_tool: response.get("result", {})
SuccessReturn(value) ==
    [isError |-> FALSE, error |-> Msg(None, None), code |-> Absent, value |-> value]
NoReturn ==
    [isError |-> FALSE, error |-> Msg(None, None), code |-> Absent, value |-> "<pending>"]

(***************************************************************************)
(* The outcomes of one HTTP POST to the backend.                           *)
(*   result           2xx, JSON object with a "result" member              *)
(*   no_result        2xx, JSON object with neither "result" nor "error"   *)
(*   error            2xx, {"error": {"code": -32601, "message": ...}}     *)
(*   error_code0      2xx, {"error": {"code": 0, "message": ...}}          *)
(*   error_bare       2xx, {"error": {}}                                   *)
(*   error_malformed  2xx, "error" member that is not an object            *)
(*   http_error       non-2xx status: httpx.HTTPStatusError                *)
(*   disconnected     the connection was made and no response arrived:     *)
(*                    httpx.RemoteProtocolError, httpx.ReadError           *)
(*   bad_body         2xx with a body that is not JSON                     *)
(*   connect_error    httpx.ConnectError                                   *)
(*   timeout          httpx.TimeoutException                               *)
(*   client_closed    the AsyncClient was closed: RuntimeError             *)
(***************************************************************************)
AnswerOutcomes == {"result", "no_result", "error", "error_code0", "error_bare",
                   "error_malformed", "http_error", "bad_body"}
FailureOutcomes == {"connect_error", "timeout"}
NoAnswerOutcomes == {"disconnected"}
Outcomes == AnswerOutcomes \cup FailureOutcomes \cup NoAnswerOutcomes \cup {"client_closed"}

\* What the network can deliver, given the backend and the client used.
PossibleOutcomes(up, closed) ==
    IF closed THEN {"client_closed"}
    ELSE IF up THEN AnswerOutcomes \cup {"timeout"} \cup NoAnswerOutcomes
    ELSE FailureOutcomes

\* "response = await self.client.post(...)" returned: an HTTP response arrived
ResponseReceived(outcome) == outcome \in AnswerOutcomes

\* The decoded JSON body of an outcome that call_method returns.
EmptyObject == "{}"
NoResponse == [kind |-> None, result |-> None, has_code |-> FALSE, code |-> 0,
               message |-> None]
ResponseOf(outcome) ==
    CASE outcome = "result" ->
            [kind |-> "result", result |-> "payload", has_code |-> FALSE, code |-> 0,
             message |-> None]
      [] outcome = "no_result" ->
            [kind |-> "no_result", result |-> None, has_code |-> FALSE, code |-> 0,
             message |-> None]
      [] outcome = "error" ->
            [kind |-> "error", result |-> None, has_code |-> TRUE, code |-> -32601,
             message |-> "Method not found"]
      [] outcome = "error_code0" ->
            [kind |-> "error", result |-> None, has_code |-> TRUE, code |-> 0,
             message |-> "Zero"]
      [] outcome = "error_bare" ->
            [kind |-> "error", result |-> None, has_code |-> FALSE, code |-> 0,
             message |-> None]
      [] OTHER -> NoResponse

\* str(error_code)
Str(n) == CASE n = -32601 -> "-32601" [] n = 0 -> "0" [] OTHER -> "?"


(***************************************************************************)
(* UnrealMCPClient.call_method, from the completion of the POST on: the    *)
(* exception it raises (None when it returns the decoded body), the        *)
(* ConnectionState it writes and whether it refreshes                      *)
(* last_known_good_connection.                                             *)
(***************************************************************************)
call_method_raises(outcome) ==
    CASE outcome \in {"result", "no_result", "error", "error_code0", "error_bare"} -> None
      [] outcome = "connect_error" -> "ConnectionError"
      [] outcome = "timeout" -> "TimeoutError"
      \* HTTPStatusError, RemoteProtocolError and ReadError are httpx.HTTPError
      [] outcome \in {"http_error", "disconnected"} -> "HTTPError"
      \* error.get on a non-dict: AttributeError; response.json(): JSONDecodeError;
      \* a closed client: RuntimeError.  All reach "except Exception".
      [] outcome = "error_malformed" -> "AttributeError"
      [] outcome = "bad_body" -> "JSONDecodeError"
      [] OTHER -> "RuntimeError"

call_method_state_forgets(outcome) ==
    IF call_method_raises(outcome) = None THEN ONLINE ELSE UNKNOWN

call_method_state_timeout_online(outcome) ==
    IF call_method_raises(outcome) = None THEN ONLINE
    ELSE IF outcome = "timeout" THEN ONLINE ELSE OFFLINE

call_method_state(outcome) ==
    IF call_method_raises(outcome) = None THEN ONLINE ELSE OFFLINE

_check_connection_immediate_strict(outcome) ==
    outcome \in {"result", "no_result", "error", "error_code0", "error_bare"}

\* _check_connection_immediate: False for ConnectError / TimeoutException only
_check_connection_immediate(outcome) == outcome \notin {"connect_error", "timeout"}

(***************************************************************************)
(* tools.handle_tool_result.  A tool result of the backend is              *)
(* {"isError": ..., "content": [{"type": ..., "text": ...}, ...]}; the     *)
(* text of an item is a JSON document.  Texts are the strings below and    *)
(* json.loads is computed on them: JsonLoads gives the decoded value, or   *)
(* the JSONDecodeError / TypeError it raises.                              *)
(***************************************************************************)
JsonTexts ==
    {"{\"bSuccess\": false, \"error\": \"X\"}",
     "{\"bSuccess\": false}",
     "{\"bSuccess\": true, \"data\": 1}",
     "{\"data\": 1}",
     "{\"bSuccess\": null, \"error\": \"X\"}",
     "{\"bSuccess\": 0, \"error\": \"X\"}",
     "{\"error\": \"Test error\", \"code\": \"test_code\"}",
     "{}",
     "[1, 2]",
     "not json",
     ""}

\* a decoded JSON value: an object with its members, or another value
JsonObject(bSuccess, error, code, data) ==
    [json |-> "object", bSuccess |-> bSuccess, error |-> error, code |-> code,
     data |-> data]
JsonArray == [json |-> "array", bSuccess |-> Absent, error |-> Absent, code |-> Absent,
              data |-> Absent]
\* what json.loads raises instead of returning
JsonRaises(exc) == [json |-> exc, bSuccess |-> Absent, error |-> Absent, code |-> Absent,
                    data |-> Absent]

\* json.loads(text); a text of None (JSON null in the item) is a TypeError
JsonLoads(text) ==
    CASE text = "{\"bSuccess\": false, \"error\": \"X\"}" -> JsonObject("false", "X", Absent, Absent)
      [] text = "{\"bSuccess\": false}" -> JsonObject("false", Absent, Absent, Absent)
      [] text = "{\"bSuccess\": true, \"data\": 1}" -> JsonObject("true", Absent, Absent, "1")
      [] text = "{\"data\": 1}" -> JsonObject(Absent, Absent, Absent, "1")
      [] text = "{\"bSuccess\": null, \"error\": \"X\"}" -> JsonObject("null", "X", Absent, Absent)
      [] text = "{\"bSuccess\": 0, \"error\": \"X\"}" -> JsonObject("0", "X", Absent, Absent)
      [] text = "{\"error\": \"Test error\", \"code\": \"test_code\"}" ->
             JsonObject(Absent, "Test error", "test_code", Absent)
      [] text = "{\"error\": \"Test error\"}" -> JsonObject(Absent, "Test error", Absent, Absent)
      [] text = "{\"error\": \"X\"}" -> JsonObject(Absent, "X", Absent, Absent)
      [] text = "{\"error\": \"X\", \"code\": \"test_code\"}" ->
             JsonObject(Absent, "X", "test_code", Absent)
      [] text = "{}" -> JsonObject(Absent, Absent, Absent, Absent)
      [] text = "[1, 2]" -> JsonArray
      [] text = None -> JsonRaises("TypeError")
      [] OTHER -> JsonRaises("JSONDecodeError")

\* the items of a content array: "type" and "text" may be missing, "text" may be null
ContentItem(type, text) == [type |-> type, text |-> text]
ContentItems ==
    { ContentItem(type, text) :
        type \in {"text", "image", Absent}, text \in JsonTexts \cup {Absent, None} }

\* the tool results handle_tool_result is given: "isError" missing, true or
\* false; "content" missing, empty, or with one or two items
Content(items) == [present |-> TRUE, items |-> items]
NoContent == [present |-> FALSE, items |-> <<>>]
ToolResult(isError, content) == [isError |-> isError, content |-> content]
ToolResults ==
    { ToolResult(isError, content) :
        isError \in {Absent, "True", "False"},
        content \in {NoContent, Content(<<>>)} \cup { Content(<<i>>) : i \in ContentItems }
                      \cup { Content(<<i, ContentItem("text", "{}")>>) :
                                 i \in {ContentItem("text", "{\"bSuccess\": false}"),
                                        ContentItem("image", Absent)} } }

\* result.get("content", [{}])[0]: the first item, {} for a missing array;
\* IndexError for an empty one
FirstContent(result) ==
    IF result.content = NoContent THEN ContentItem(Absent, Absent)
    ELSE result.content.items[1]

\* content.get("text", default)
GetText(content, default) == IF content.text = Absent THEN default ELSE content.text

\* dict.get(key, default) on a decoded object
JsonGet(member, default) == IF member = Absent THEN default ELSE member

\* error_data of create_error_response: {"error": error_message}, with
\* error_data["code"] = error_code "if error_code"
ErrorData(error_message, error_code) ==
    [error |-> error_message,
     code |-> IF error_code \in {None, ""} THEN Absent ELSE error_code]

\* json.dumps(error_data)
JsonDumps(error_data) ==
    CASE error_data = [error |-> "Test error", code |-> Absent] ->
             "{\"error\": \"Test error\"}"
      [] error_data = [error |-> "Test error", code |-> "test_code"] ->
             "{\"error\": \"Test error\", \"code\": \"test_code\"}"
      [] error_data = [error |-> "X", code |-> Absent] ->
             "{\"error\": \"X\"}"
      [] error_data = [error |-> "X", code |-> "test_code"] ->
             "{\"error\": \"X\", \"code\": \"test_code\"}"

\* the dict that create_error_response returns, with its JSON text; the
\* record create_error_response above is the same response, decoded
ErrorResponse(error_message, error_code) ==
    ToolResult("True",
               Content(<<ContentItem("text", JsonDumps(ErrorData(error_message, error_code)))>>))

\* return values of handle_tool_result
Returned(kind, value) == [kind |-> kind, value |-> value]
Raised(exc) == [kind |-> "raise", value |-> exc]

BusinessFailure_falsy(parsed) ==
    parsed.json = "object" /\ parsed.bSuccess \in {"false", "null", "0", Absent}

\* isinstance(parsed_result, dict) and parsed_result.get("bSuccess") is False
BusinessFailure(parsed) == parsed.json = "object" /\ parsed.bSuccess = "false"

handle_tool_result_drops_code(tool_name, result) ==
    IF result.content = Content(<<>>) THEN Raised("IndexError")
    ELSE LET content == FirstContent(result)
         IN  IF result.isError = "True"
             THEN LET error_text == GetText(content, "{}")
                      error_data == JsonLoads(error_text)
                  IN  CASE error_data.json = "object" ->
                               Returned("error",
                                   create_error_response(
                                       Msg(JsonGet(error_data.error, "Unknown error"), None),
                                       None))
                        [] error_data.json = "JSONDecodeError" ->
                               Returned("error",
                                        create_error_response(Msg(error_text, None), None))
                        [] error_data.json = "array" -> Raised("AttributeError")
                        [] OTHER -> Raised(error_data.json)
             ELSE Returned("result", result)

handle_tool_result(tool_name, result) ==
    IF result.content = Content(<<>>) THEN Raised("IndexError")
    ELSE LET content == FirstContent(result)
         IN  IF result.isError = "True"
             THEN LET error_text == GetText(content, "{}")
                      error_data == JsonLoads(error_text)
                  IN  CASE error_data.json = "object" ->
                               Returned("error",
                                   create_error_response(
                                       Msg(JsonGet(error_data.error, "Unknown error"), None),
                                       JsonGet(error_data.code, None)))
                        [] error_data.json = "JSONDecodeError" ->
                               Returned("error",
                                        create_error_response(Msg(error_text, None), None))
                        \* .get on a list: AttributeError; json.loads(None): TypeError
                        [] error_data.json = "array" -> Raised("AttributeError")
                        [] OTHER -> Raised(error_data.json)
             ELSE IF content.type = "text"
             THEN LET parsed_result == JsonLoads(GetText(content, "{}"))
                  IN  CASE parsed_result.json = "JSONDecodeError" ->
                               Returned("text", GetText(content, ""))
                        [] parsed_result.json = "TypeError" -> Raised("TypeError")
                        [] BusinessFailure(parsed_result) ->
                               Returned("error",
                                   create_error_response(
                                       Msg(JsonGet(parsed_result.error, "Operation failed"),
                                           None),
                                       None))
                        [] OTHER -> Returned("parsed", parsed_result)
             ELSE Returned("result", result)

(***************************************************************************)
(* tool_definitions.compare_tool_definitions.  A tool definition is a dict *)
(* with a name, a description and an inputSchema; the schema has a list of *)
(* required field names and a dict of properties, each with an optional    *)
(* type, a description and an optional default.  A missing inputSchema,    *)
(* required or properties entry reads as empty through dict.get.           *)
(***************************************************************************)
Fields == {"a", "b"}
Types == {"string", "integer", "number", "boolean", "array", "object", "null"}

Property(type, description, default) ==
    [type |-> type, description |-> description, default |-> default]
InputSchema(required, properties) ==
    [required |-> required, properties |-> properties]
SchemaTool(name, description, inputSchema) ==
    [name |-> name, description |-> description, inputSchema |-> inputSchema]

\* one entry of the returned list of issues
Issue(kind, fields, proxy, backend) ==
    [kind |-> kind, fields |-> fields, proxy |-> proxy, backend |-> backend]

\* the properties dicts the inputs are drawn from
PropertyDicts(as, bs) ==
    { [f \in dom |-> IF f = "a" THEN pa ELSE pb] :
          dom \in SUBSET Fields, pa \in as, pb \in bs }

ProxyTools ==
    { SchemaTool(name, "proxy tool", InputSchema(required, properties)) :
          name \in {"t", "u", Absent},
          required \in {<<>>, <<"a">>},
          properties \in PropertyDicts(
              { Property(t, d, Absent) : t \in Types \cup {Absent}, d \in {"d1", "d2"} },
              { Property(t, "d1", Absent) : t \in {"integer", "string"} }) }

BackendTools ==
    { SchemaTool(name, "backend tool", InputSchema(required, properties)) :
          name \in {"t", Absent},
          required \in {<<>>, <<"a">>, <<"b">>, <<"a", "b">>, <<"b", "a">>},
          properties \in PropertyDicts(
              { Property(t, "d1", Absent) : t \in Types \cup {Absent} },
              { Property(t, "d1", Absent) : t \in {"integer", "string"} }) }

compatible_types ==
    { {"number", "integer"}, {"string"}, {"boolean"}, {"array"}, {"object"} }

\* any(cached_type in group and backend_type in group for group in compatible_types)
types_compatible_exact(cached_type, backend_type) ==
    cached_type = backend_type

types_compatible(cached_type, backend_type) ==
    \E group \in compatible_types : cached_type \in group /\ backend_type \in group

\* [f for f in backend_required if f not in cached_properties]
missing_required_first(backend_required, cached_properties) ==
    LET missing == SelectSeq(backend_required, LAMBDA f : f \notin DOMAIN cached_properties)
    IN  IF missing = <<>> THEN <<>> ELSE <<Head(missing)>>

missing_required(backend_required, cached_properties) ==
    SelectSeq(backend_required, LAMBDA f : f \notin DOMAIN cached_properties)

\* the body of "for field_name in backend_required" for one field
TypeMismatch(field_name, cached_properties, backend_properties) ==
    IF field_name \in DOMAIN cached_properties /\ field_name \in DOMAIN backend_properties
    THEN LET cached_type == cached_properties[field_name].type
             backend_type == backend_properties[field_name].type
         IN  IF /\ cached_type # Absent
                /\ backend_type # Absent
                /\ cached_type # backend_type
                /\ ~types_compatible(cached_type, backend_type)
             THEN <<Issue("Type mismatch for required field", <<field_name>>,
                          cached_type, backend_type)>>
             ELSE <<>>
    ELSE <<>>

RECURSIVE TypeIssues(_, _, _)
TypeIssues(backend_required, cached_properties, backend_properties) ==
    IF backend_required = <<>> THEN <<>>
    ELSE TypeMismatch(Head(backend_required), cached_properties, backend_properties)
         \o TypeIssues(Tail(backend_required), cached_properties, backend_properties)

compare_tool_definitions_strict(cached_tool, backend_tool) ==
    IF cached_tool.inputSchema.properties = backend_tool.inputSchema.properties THEN <<>>
    ELSE <<Issue("Schema mismatch", <<>>, cached_tool.name, backend_tool.name)>>

compare_tool_definitions_goes_on(cached_tool, backend_tool) ==
    LET backend_required == backend_tool.inputSchema.required
        cached_properties == cached_tool.inputSchema.properties
        missing == missing_required(backend_required, cached_properties)
    IN  (IF cached_tool.name # backend_tool.name
         THEN <<Issue("Name mismatch", <<>>, cached_tool.name, backend_tool.name)>>
         ELSE <<>>)
        \o (IF missing # <<>>
            THEN <<Issue("Missing required fields in proxy schema", missing,
                         Absent, Absent)>>
            ELSE <<>>)
        \o TypeIssues(backend_required, cached_properties,
                      backend_tool.inputSchema.properties)

compare_tool_definitions(cached_tool, backend_tool) ==
    IF cached_tool.name # backend_tool.name
    THEN <<Issue("Name mismatch", <<>>, cached_tool.name, backend_tool.name)>>
    ELSE LET cached_input == cached_tool.inputSchema
             backend_input == backend_tool.inputSchema
             backend_required == backend_input.required
             cached_properties == cached_input.properties
             missing == missing_required(backend_required, cached_properties)
             backend_properties == backend_input.properties
         IN  (IF missing # <<>>
              THEN <<Issue("Missing required fields in proxy schema", missing,
                           Absent, Absent)>>
              ELSE <<>>)
             \o TypeIssues(backend_required, cached_properties, backend_properties)

(***************************************************************************)
(* compatibility.check_tool_compatibility, as a function of the state it   *)
(* reads, of the outcome of the tools/list request it awaits and of the    *)
(* tools in the response: whether a request is sent, the verdict on each   *)
(* backend tool (a tool without a name is skipped, one without a proxy     *)
(* definition is logged as missing from the proxy definitions) and         *)
(* compatibility_issues_found.                                             *)
(***************************************************************************)
\* the proxy definitions: none, or a definition of tool "t" with property "a"
CompatCatalogues ==
    { [n \in {} |-> SchemaTool(n, "proxy tool", InputSchema(<<>>, <<>>))],
      [n \in {"t"} |-> SchemaTool(n, "proxy tool",
                                  InputSchema(<<"a">>,
                                      [f \in {"a"} |-> Property("string", "d1", Absent)]))] }

\* the tools of a tools/list response: "name" may be missing
CompatBackendTools ==
    { SchemaTool(name, "backend tool",
                 InputSchema(required,
                             [f \in Fields |-> Property("string", "d1", Absent)])) :
          name \in {"t", "u", Absent}, required \in {<<"a">>, <<"b">>} }

MaxBackendTools == 2
BackendToolLists ==
    UNION { [1..n -> CompatBackendTools] : n \in 0..MaxBackendTools }

\* the body of "for backend_tool in backend_tools"
Verdict(cached, backend_tool) ==
    IF backend_tool.name = Absent THEN "skipped"
    ELSE IF DOMAIN cached = {} \/ backend_tool.name \notin DOMAIN cached
    THEN "undeclared"
    ELSE IF compare_tool_definitions(cached[backend_tool.name], backend_tool) # <<>>
    THEN "issue"
    ELSE "compatible"

Verdicts(cached, backend_tools) ==
    [i \in 1..Len(backend_tools) |-> Verdict(cached, backend_tools[i])]

CompatibilityIssuesFound_with_undeclared(verdicts) ==
    Cardinality({ i \in 1..Len(verdicts) : verdicts[i] \in {"issue", "undeclared"} })

\* compatibility_issues_found after the loop
CompatibilityIssuesFound(verdicts) ==
    Cardinality({ i \in 1..Len(verdicts) : verdicts[i] = "issue" })

CompatReport(sent, log, verdicts) ==
    [sent |-> sent, log |-> log, verdicts |-> verdicts,
     compatibility_issues_found |-> CompatibilityIssuesFound(verdicts)]

check_tool_compatibility(st, outcome, cached, backend_tools) ==
    IF st # ONLINE THEN CompatReport(FALSE, "Backend is offline", <<>>)
    ELSE IF call_method_raises(outcome) # None
    THEN CompatReport(TRUE, "Error during tool discovery", <<>>)
    ELSE IF ResponseOf(outcome).kind = "error"
    THEN CompatReport(TRUE, "Backend returned error when listing tools", <<>>)
    ELSE LET tools == IF ResponseOf(outcome).kind = "result" THEN backend_tools ELSE <<>>
         IN  CompatReport(TRUE, "Tool discovery completed", Verdicts(cached, tools))

(***************************************************************************)
(* Settings (config.ServerSettings).  Delays are rationals, in ms.         *)
(***************************************************************************)
DefaultDelays ==
    [retry_initial_delay |-> Rat(DEFAULT_RETRY_INITIAL_DELAY, 1),
     retry_max_delay |-> Rat(DEFAULT_RETRY_MAX_DELAY, 1),
     retry_backoff_factor |-> Rat(DEFAULT_RETRY_BACKOFF_FACTOR, 1)]
\* a configuration whose second wait reaches retry_max_delay, with a
\* fractional factor
CappedDelays ==
    [retry_initial_delay |-> Rat(500, 1), retry_max_delay |-> Rat(600, 1),
     retry_backoff_factor |-> Rat(3, 2)]
DelayChoices == {DefaultDelays, CappedDelays}

\* validate_retry_attempts: v >= 0
RetryAttemptChoices == 0..MaxRetryAttempts

SettingsChoices ==
    { [retry_max_attempts |-> n, delays |-> d, health_check_start_on_first_call |-> l] :
        n \in RetryAttemptChoices, d \in DelayChoices, l \in BOOLEAN }

\* the coroutines that call tools
Callers == {"c1", "c2"}
TaskIds == 1..MaxTasks

VARIABLES
    state,                       \* UnrealMCPClient.state
    last_known_good_connection,  \* None (0) or the time of the last response
    _health_check_task,          \* 0 for None, or the id of the task
    _health_check_started,
    tasks,                       \* the health-check tasks ever created: id -> position
    task_cancel,                 \* ids of the tasks whose cancel() was requested
    client_closed,               \* self.client.aclose() has run
    call,                        \* the tool calls: caller -> frame of call_tool
    compat,                      \* the compatibility-check tasks alive, by position
    shutdown_pc,                 \* position of shutdown()
    backend,                     \* is the backend reachable
    settings,
    cached_proxy_tool_definitions

VARIABLES
    proxy,                       \* position of initialization.initialize_proxy
    observed,                    \* history: the last request that completed
    fn,                          \* the call of a pure function: input and return value
    handler                      \* the call of a resource list handler of the server

vars == <<state, last_known_good_connection, _health_check_task, _health_check_started,
          tasks, task_cancel, client_closed, call, compat, shutdown_pc, backend,
          settings, cached_proxy_tool_definitions, proxy, observed, fn, handler>>

IdleCall ==
    [pc |-> "idle", tool_name |-> None, entry_state |-> UNKNOWN, is_read_only |-> FALSE,
     attempt |-> 0, delay |-> Rat(0, 1), calls |-> 0, probes |-> 0, failures |-> 0,
     last_outcome |-> None, waits |-> <<>>, raised |-> None, ret |-> NoReturn]

\* a caller that issues no tool call in the run
OffCall == [IdleCall EXCEPT !.pc = "off"]

\* UnrealMCPClient.__init__ and the module-level set-up of server.py
InitClient ==
    /\ state = UNKNOWN
    /\ last_known_good_connection = 0
    /\ _health_check_task = 0
    /\ _health_check_started = FALSE
    /\ tasks = [t \in TaskIds |-> "unborn"]
    /\ task_cancel = {}
    /\ client_closed = FALSE
    /\ compat = [sleep |-> 0, post |-> 0]
    /\ shutdown_pc = "idle"
    /\ backend \in BOOLEAN

\* The history variable: the request that completed last, with the state and
\* last_known_good_connection before it and when its coroutine is suspended
\* again.  It is kept in the specifications that start with observed.on.
\* It also records the httpx.AsyncClient that the request was posted on, and
\* how many AsyncClient objects were constructed so far (one by __init__).
NotObserved ==
    [on |-> FALSE, by |-> None, outcome |-> None, before |-> UNKNOWN, after |-> UNKNOWN,
     lkg_before |-> 0, lkg_after |-> 0, via |-> None, clients |-> 1]
Observing == [NotObserved EXCEPT !.on = TRUE]

\* the client a request is posted on: _check_connection_immediate opens
\* "async with httpx.AsyncClient(...) as quick_client", call_method posts on
\* self.client
HttpClientOf_shared(by) == "self.client"

HttpClientOf(by) == IF by = "probe" THEN "quick_client" ELSE "self.client"

Observe(by, outcome) ==
    observed' = IF observed.on
                THEN [on |-> TRUE, by |-> by, outcome |-> outcome,
                      before |-> state, after |-> state',
                      lkg_before |-> last_known_good_connection,
                      lkg_after |-> last_known_good_connection',
                      via |-> HttpClientOf(by),
                      clients |-> IF HttpClientOf(by) = "self.client"
                                  THEN observed.clients ELSE observed.clients + 1]
                ELSE observed

\* A frame of _get_resources_list_forward ("resources") or of
\* _get_resource_templates_list_forward ("resourceTemplates"): its position,
\* whether it sent a request to the backend, and the catalogue it returned.
Catalogue(source, key) == [source |-> source, key |-> key]
NoCatalogue == Catalogue(None, None)
HandlerNames == {"resources", "resourceTemplates"}
HandlerOff == [pc |-> "off", name |-> None, sent |-> FALSE, ret |-> NoCatalogue]
HandlerIdle == [HandlerOff EXCEPT !.pc = "idle"]

\* no pure function is being called; passes counts the applications of
\* handle_tool_result that a value went through
FnIdle == [op |-> None, input |-> None, output |-> None, done |-> FALSE, passes |-> 0]

\* One caller, every configuration; server.py never calls initialize_proxy.
Init ==
    /\ InitClient
    /\ call = [c \in Callers |-> IF c = "c1" THEN IdleCall ELSE OffCall]
    /\ settings \in SettingsChoices
    /\ cached_proxy_tool_definitions \in Catalogues
    /\ proxy = "off"
    /\ observed = NotObserved
    /\ fn = FnIdle
    /\ handler = HandlerOff

\* time.time(): a value later than every earlier one
TimeAfter(t) == IF t = 1 THEN 2 ELSE 1

(***************************************************************************)
(* UnrealMCPClient._start_health_check, called from a coroutine (a running *)
(* loop exists): a task is created when there is none or it is done.       *)
(***************************************************************************)
NextTaskId == CHOOSE t \in TaskIds : tasks[t] = "unborn" /\ \A u \in 1..(t - 1) : tasks[u] # "unborn"

TaskDone(t) == tasks[t] = "done"

NeedsNewTask == _health_check_task = 0 \/ TaskDone(_health_check_task)

_start_health_check ==
    IF NeedsNewTask
    THEN /\ \E t \in TaskIds : tasks[t] = "unborn"
         /\ tasks' = [tasks EXCEPT ![NextTaskId] = "created"]
         /\ _health_check_task' = NextTaskId
         /\ _health_check_started' = TRUE
    ELSE UNCHANGED <<tasks, _health_check_task, _health_check_started>>

initialize_async_start_always ==
    /\ \E t \in TaskIds : tasks[t] = "unborn"
    /\ tasks' = [tasks EXCEPT ![NextTaskId] = "created"]
    /\ _health_check_task' = NextTaskId
    /\ _health_check_started' = TRUE

\* the end of initialize_async: "if not self._health_check_started"
initialize_async_start ==
    IF ~_health_check_started THEN _start_health_check
    ELSE UNCHANGED <<tasks, _health_check_task, _health_check_started>>

(***************************************************************************)
(* tools.call_tool, after the lazy initialisation.                         *)
(***************************************************************************)
\* "if cached_proxy_tool_definitions and tool_name not in cached_proxy_tool_definitions"
ToolNotFound(cached, tool_name) ==
    DOMAIN cached # {} /\ tool_name \notin DOMAIN cached

NOT_FOUND == "Tool not found"
NOT_AVAILABLE == "Unreal MCP server is not available"

\* the first client.call_tool of call_tool_with_retry
call_tool_with_retry(f) ==
    [f EXCEPT !.is_read_only =
                  is_read_only_tool(f.tool_name,
                                    CatalogueGet(cached_proxy_tool_definitions, f.tool_name),
                                    ServerFunction(f.tool_name)),
              !.attempt = 0,
              !.delay = settings.delays.retry_initial_delay,
              !.calls = 1,
              !.pc = "post"]

FailFast_never(st) == FALSE

FailFast_not_online(st) == st # ONLINE

FailFast(st) == st = OFFLINE

Dispatch_offline_first(f, st) ==
    IF FailFast(st)
    THEN [f EXCEPT !.pc = "done", !.ret = create_error_response(Msg(NOT_AVAILABLE, None), None)]
    ELSE IF ToolNotFound(cached_proxy_tool_definitions, f.tool_name)
    THEN [f EXCEPT !.pc = "done", !.ret = create_error_response(Msg(NOT_FOUND, f.tool_name), None)]
    ELSE call_tool_with_retry(f)

Dispatch_always_forwards(f, st) ==
    IF ToolNotFound(cached_proxy_tool_definitions, f.tool_name)
    THEN [f EXCEPT !.pc = "done", !.ret = create_error_response(Msg(NOT_FOUND, f.tool_name), None)]
    ELSE call_tool_with_retry(f)

Dispatch(f, st) ==
    IF ToolNotFound(cached_proxy_tool_definitions, f.tool_name)
    THEN [f EXCEPT !.pc = "done", !.ret = create_error_response(Msg(NOT_FOUND, f.tool_name), None)]
    ELSE IF FailFast(st)
    THEN [f EXCEPT !.pc = "done", !.ret = create_error_response(Msg(NOT_AVAILABLE, None), None)]
    ELSE call_tool_with_retry(f)

\* response.get("result", {})
ResponseGetResult(response) ==
    IF response.kind = "result" THEN response.result ELSE EmptyObject

\* call_tool on a response of call_tool_with_retry
CallToolResult(response) ==
    IF response.kind = "error"
    THEN create_error_response(
             Msg(IF response.message # None THEN response.message ELSE "{}", None),
             IF response.has_code /\ response.code # 0 THEN Str(response.code) ELSE None)
    ELSE SuccessReturn(ResponseGetResult(response))

\* an exception that leaves call_tool
Raise(exc) ==
    [isError |-> FALSE, error |-> Msg("raise", exc), code |-> Absent, value |-> "<exception>"]

CallToolExcept_transient_only(exc) ==
    CASE exc = "ConnectionError" ->
            create_error_response(Msg("Failed to connect to Unreal MCP server", exc),
                                  "connection_error")
      [] exc = "TimeoutError" ->
            create_error_response(Msg("Request to Unreal MCP server timed out", exc),
                                  "timeout_error")
      [] OTHER -> Raise(exc)

\* call_tool's except clauses
CallToolExcept(exc) ==
    CASE exc = "ConnectionError" ->
            create_error_response(Msg("Failed to connect to Unreal MCP server", exc),
                                  "connection_error")
      [] exc = "TimeoutError" ->
            create_error_response(Msg("Request to Unreal MCP server timed out", exc),
                                  "timeout_error")
      [] OTHER -> create_error_response(Msg("Failed to call tool", exc), "internal_error")

(***************************************************************************)
(* tools.call_tool_with_retry, after an attempt.                           *)
(***************************************************************************)
ShouldRetry_any_tool(f, exc) ==
    /\ is_transient_error(exc)
    /\ f.attempt < settings.retry_max_attempts

ShouldRetry_connection_only(f, exc) ==
    /\ f.is_read_only
    /\ exc = "ConnectionError"
    /\ f.attempt < settings.retry_max_attempts

ShouldRetry_one_more(f, exc) ==
    /\ f.is_read_only
    /\ is_transient_error(exc)
    /\ f.attempt <= settings.retry_max_attempts

ShouldRetry_fixed_limit(f, exc) ==
    /\ f.is_read_only
    /\ is_transient_error(exc)
    /\ f.attempt < 3

ShouldRetry(f, exc) ==
    /\ f.is_read_only
    /\ is_transient_error(exc)
    /\ f.attempt < settings.retry_max_attempts

WaitTime_uncapped(f) == f.delay

\* wait_time = min(delay, max_delay)
WaitTime(f) == RatMin(f.delay, settings.delays.retry_max_delay)

\* delay *= backoff_factor
NextDelay(f) == RatMul(f.delay, settings.delays.retry_backoff_factor)

AfterAttempt(f, outcome) ==
    LET exc == call_method_raises(outcome)
        g == [f EXCEPT !.last_outcome = outcome,
                       !.failures = IF outcome \in FailureOutcomes THEN @ + 1 ELSE @]
    IN  IF exc = None
        THEN [g EXCEPT !.pc = "done", !.ret = CallToolResult(ResponseOf(outcome))]
        ELSE IF ShouldRetry(f, exc)
        THEN [g EXCEPT !.pc = "sleep",
                       !.waits = Append(@, WaitTime(f)),
                       !.delay = NextDelay(f)]
        ELSE [g EXCEPT !.pc = "done", !.raised = exc, !.ret = CallToolExcept(exc)]


(***************************************************************************)
(* Actions of a tool call (tools.call_tool), one per stretch of code       *)
(* between two awaits.                                                     *)
(***************************************************************************)
SpawnCompat_never == UNCHANGED compat

\* asyncio.create_task(check_compatibility_when_online())
SpawnCompat == compat' = [compat EXCEPT !.sleep = @ + 1]

\* Entry of call_tool, up to its first suspension or its return.
CallToolEnter(c, name) ==
    /\ call[c].pc \in {"idle", "done"}
    /\ LET f == [IdleCall EXCEPT !.tool_name = name, !.entry_state = state]
           lazy == settings.health_check_start_on_first_call /\ ~_health_check_started
       IN  IF lazy /\ state = UNKNOWN
           THEN \* initialize_async awaits _check_connection_immediate
                /\ call' = [call EXCEPT ![c] = [f EXCEPT !.pc = "probe", !.probes = 1]]
                /\ UNCHANGED <<tasks, _health_check_task, _health_check_started, compat>>
           ELSE IF lazy
           THEN /\ initialize_async_start
                /\ SpawnCompat
                /\ call' = [call EXCEPT ![c] = Dispatch(f, state)]
           ELSE /\ call' = [call EXCEPT ![c] = Dispatch(f, state)]
                /\ UNCHANGED <<tasks, _health_check_task, _health_check_started, compat>>
    /\ UNCHANGED <<state, last_known_good_connection, task_cancel, client_closed,
                   shutdown_pc, backend, settings, cached_proxy_tool_definitions,
                   proxy, observed, fn, handler>>

CallToolProbeDone_stale_state(c, outcome) ==
    /\ call[c].pc = "probe"
    /\ outcome \in PossibleOutcomes(backend, FALSE)
    /\ state' = IF _check_connection_immediate(outcome) THEN ONLINE ELSE OFFLINE
    /\ last_known_good_connection' =
           IF _check_connection_immediate(outcome)
           THEN TimeAfter(last_known_good_connection) ELSE last_known_good_connection
    /\ initialize_async_start
    /\ SpawnCompat
    /\ call' = [call EXCEPT ![c] = Dispatch(call[c], state)]
    /\ Observe("probe", outcome)
    /\ UNCHANGED <<task_cancel, client_closed, shutdown_pc, backend, settings,
                   cached_proxy_tool_definitions,
                   proxy, fn, handler>>

\* The immediate probe of initialize_async answers (its own short-lived client).
CallToolProbeDone(c, outcome) ==
    /\ call[c].pc = "probe"
    /\ outcome \in PossibleOutcomes(backend, FALSE)
    /\ state' = IF _check_connection_immediate(outcome) THEN ONLINE ELSE OFFLINE
    /\ last_known_good_connection' =
           IF _check_connection_immediate(outcome)
           THEN TimeAfter(last_known_good_connection) ELSE last_known_good_connection
    /\ initialize_async_start
    /\ SpawnCompat
    /\ call' = [call EXCEPT ![c] = Dispatch(call[c], state')]
    /\ Observe("probe", outcome)
    /\ UNCHANGED <<task_cancel, client_closed, shutdown_pc, backend, settings,
                   cached_proxy_tool_definitions,
                   proxy, fn, handler>>

CallMethodDone_keeps_time(outcome) ==
    /\ outcome \in PossibleOutcomes(backend, client_closed)
    /\ state' = call_method_state(outcome)
    /\ last_known_good_connection' = last_known_good_connection

\* call_method: what the completed POST does to the client
CallMethodDone(outcome) ==
    /\ outcome \in PossibleOutcomes(backend, client_closed)
    /\ state' = call_method_state(outcome)
    /\ last_known_good_connection' =
           IF call_method_raises(outcome) = None
           THEN TimeAfter(last_known_good_connection) ELSE last_known_good_connection

\* The POST of client.call_tool completes: call_method, then the retry loop,
\* then call_tool's handling of the response or exception.
CallToolPostDone(c, outcome) ==
    /\ call[c].pc = "post"
    /\ CallMethodDone(outcome)
    /\ call' = [call EXCEPT ![c] = AfterAttempt(call[c], outcome)]
    /\ Observe("call_tool", outcome)
    /\ UNCHANGED <<_health_check_task, _health_check_started, tasks, task_cancel,
                   client_closed, compat, shutdown_pc, backend, settings,
                   cached_proxy_tool_definitions,
                   proxy, fn, handler>>

\* asyncio.sleep(wait_time) ends: the next iteration of the retry loop
CallToolSleepDone(c) ==
    /\ call[c].pc = "sleep"
    /\ call' = [call EXCEPT ![c].pc = "post", ![c].attempt = @ + 1, ![c].calls = @ + 1]
    /\ UNCHANGED <<state, last_known_good_connection, _health_check_task,
                   _health_check_started, tasks, task_cancel, client_closed, compat,
                   shutdown_pc, backend, settings, cached_proxy_tool_definitions,
                   proxy, observed, fn, handler>>

(***************************************************************************)
(* UnrealMCPClient._health_check_loop                                      *)
(***************************************************************************)
Alive(t) == tasks[t] \in {"created", "ping", "sleep"}

\* the task runs for the first time, or its sleep ends: call_method("ping")
HealthPing(t) ==
    /\ tasks[t] \in {"created", "sleep"}
    /\ t \notin task_cancel
    /\ tasks' = [tasks EXCEPT ![t] = "ping"]
    /\ UNCHANGED <<state, last_known_good_connection, _health_check_task,
                   _health_check_started, task_cancel, client_closed, call, compat,
                   shutdown_pc, backend, settings, cached_proxy_tool_definitions,
                   proxy, observed, fn, handler>>

\* the state the loop writes after call_method: ONLINE only if "result" in response
HealthLoopState(outcome) == IF outcome = "result" THEN ONLINE ELSE OFFLINE

HealthLoopCatches_transient(exc) == is_transient_error(exc)

\* "except Exception": every exception call_method raises is a subclass of
\* Exception; asyncio.CancelledError is not
HealthLoopCatches(exc) ==
    exc \in {"ConnectionError", "TimeoutError", "HTTPError", "AttributeError",
             "JSONDecodeError", "RuntimeError"}

\* the ping completes: call_method, the loop's handling of its response or
\* exception, then the await of the sleep; an exception the loop does not
\* catch ends the task
HealthPingDone(t, outcome) ==
    /\ tasks[t] = "ping"
    /\ t \notin task_cancel
    /\ outcome \in PossibleOutcomes(backend, client_closed)
    /\ LET exc == call_method_raises(outcome)
           handled == exc = None \/ HealthLoopCatches(exc)
       IN  /\ state' = IF handled THEN HealthLoopState(outcome)
                       ELSE call_method_state(outcome)
           /\ tasks' = [tasks EXCEPT ![t] = IF handled THEN "sleep" ELSE "done"]
    /\ last_known_good_connection' =
           IF call_method_raises(outcome) = None
           THEN TimeAfter(last_known_good_connection) ELSE last_known_good_connection
    /\ Observe("ping", outcome)
    /\ UNCHANGED <<_health_check_task, _health_check_started, task_cancel, client_closed,
                   call, compat, shutdown_pc, backend, settings,
                   cached_proxy_tool_definitions,
                   proxy, fn, handler>>

\* CancelledError is delivered at the await the task is suspended in
HealthCancelled(t) ==
    /\ Alive(t)
    /\ t \in task_cancel
    /\ tasks' = [tasks EXCEPT ![t] = "done"]
    /\ UNCHANGED <<state, last_known_good_connection, _health_check_task,
                   _health_check_started, task_cancel, client_closed, call, compat,
                   shutdown_pc, backend, settings, cached_proxy_tool_definitions,
                   proxy, observed, fn, handler>>

(***************************************************************************)
(* server.check_compatibility_when_online and                              *)
(* compatibility.check_tool_compatibility                                  *)
(***************************************************************************)
\* asyncio.sleep(1) ends; tools/list is requested only when ONLINE
CompatWake ==
    /\ compat.sleep > 0
    /\ compat' = [sleep |-> compat.sleep - 1,
                  post |-> IF state = ONLINE THEN compat.post + 1 ELSE compat.post]
    /\ UNCHANGED <<state, last_known_good_connection, _health_check_task,
                   _health_check_started, tasks, task_cancel, client_closed, call,
                   shutdown_pc, backend, settings, cached_proxy_tool_definitions,
                   proxy, observed, fn, handler>>

CompatPostDone_pure(outcome) ==
    /\ compat.post > 0
    /\ outcome \in PossibleOutcomes(backend, client_closed)
    /\ compat' = [compat EXCEPT !.post = @ - 1]
    /\ UNCHANGED <<state, last_known_good_connection, _health_check_task,
                   _health_check_started, tasks, task_cancel, client_closed, call,
                   shutdown_pc, backend, settings, cached_proxy_tool_definitions,
                   proxy, fn, handler>>
    /\ Observe("tools/list", outcome)

\* get_tools_list completes (call_method), the comparison only logs
CompatPostDone(outcome) ==
    /\ compat.post > 0
    /\ CallMethodDone(outcome)
    /\ compat' = [compat EXCEPT !.post = @ - 1]
    /\ Observe("tools/list", outcome)
    /\ UNCHANGED <<_health_check_task, _health_check_started, tasks, task_cancel,
                   client_closed, call, shutdown_pc, backend, settings,
                   cached_proxy_tool_definitions,
                   proxy, fn, handler>>

(***************************************************************************)
(* UnrealMCPClient.shutdown                                                *)
(***************************************************************************)
ShutdownBegin ==
    /\ shutdown_pc = "idle"
    /\ IF _health_check_task # 0 /\ ~TaskDone(_health_check_task)
       THEN /\ task_cancel' = task_cancel \cup {_health_check_task}
            /\ shutdown_pc' = "await_task"
       ELSE /\ shutdown_pc' = "aclose"
            /\ UNCHANGED task_cancel
    /\ UNCHANGED <<state, last_known_good_connection, _health_check_task,
                   _health_check_started, tasks, client_closed, call, compat, backend,
                   settings, cached_proxy_tool_definitions,
                   proxy, observed, fn, handler>>

\* "await self._health_check_task" returns once the task is done
ShutdownTaskAwaited ==
    /\ shutdown_pc = "await_task"
    /\ TaskDone(_health_check_task)
    /\ _health_check_task' = 0
    /\ _health_check_started' = FALSE
    /\ shutdown_pc' = "aclose"
    /\ UNCHANGED <<state, last_known_good_connection, tasks, task_cancel, client_closed,
                   call, compat, backend, settings, cached_proxy_tool_definitions,
                   proxy, observed, fn, handler>>

\* "await self.client.aclose()"
ShutdownClosed ==
    /\ shutdown_pc = "aclose"
    /\ client_closed' = TRUE
    /\ shutdown_pc' = "done"
    /\ UNCHANGED <<state, last_known_good_connection, _health_check_task,
                   _health_check_started, tasks, task_cancel, call, compat, backend,
                   settings, cached_proxy_tool_definitions,
                   proxy, observed, fn, handler>>

(***************************************************************************)
(* The backend goes down or comes up.                                      *)
(***************************************************************************)
BackendFlip ==
    /\ backend' = ~backend
    /\ UNCHANGED <<state, last_known_good_connection, _health_check_task,
                   _health_check_started, tasks, task_cancel, client_closed, call,
                   compat, shutdown_pc, settings, cached_proxy_tool_definitions,
                   proxy, observed, fn, handler>>

Next ==
    \/ \E c \in Callers, name \in ToolNames : CallToolEnter(c, name)
    \/ \E c \in Callers, outcome \in Outcomes : CallToolProbeDone(c, outcome)
    \/ \E c \in Callers, outcome \in Outcomes : CallToolPostDone(c, outcome)
    \/ \E c \in Callers : CallToolSleepDone(c)
    \/ \E t \in TaskIds : HealthPing(t)
    \/ \E t \in TaskIds, outcome \in Outcomes : HealthPingDone(t, outcome)
    \/ \E t \in TaskIds : HealthCancelled(t)
    \/ CompatWake
    \/ \E outcome \in Outcomes : CompatPostDone(outcome)
    \/ ShutdownBegin
    \/ ShutdownTaskAwaited
    \/ ShutdownClosed
    \/ BackendFlip

Spec == Init /\ [][Next]_vars

(***************************************************************************)
(* initialization.initialize_proxy, run as a start-up coroutine beside the *)
(* tool calls: initialize_async when the health check is not started, then *)
(* its own fire-and-forget check_compatibility_when_online.                *)
(***************************************************************************)
\* entry of initialize_proxy, up to the await of the immediate probe or its return
InitializeProxyEnter ==
    /\ proxy = "idle"
    /\ IF ~_health_check_started /\ state = UNKNOWN
       THEN /\ proxy' = "probe"
            /\ UNCHANGED <<tasks, _health_check_task, _health_check_started, compat>>
       ELSE /\ initialize_async_start
            /\ SpawnCompat
            /\ proxy' = "done"
    /\ UNCHANGED <<state, last_known_good_connection, task_cancel, client_closed, call,
                   shutdown_pc, backend, settings, cached_proxy_tool_definitions,
                   observed, fn, handler>>

\* the immediate probe of initialize_proxy's initialize_async answers
InitializeProxyProbeDone(outcome) ==
    /\ proxy = "probe"
    /\ outcome \in PossibleOutcomes(backend, FALSE)
    /\ state' = IF _check_connection_immediate(outcome) THEN ONLINE ELSE OFFLINE
    /\ last_known_good_connection' =
           IF _check_connection_immediate(outcome)
           THEN TimeAfter(last_known_good_connection) ELSE last_known_good_connection
    /\ initialize_async_start
    /\ SpawnCompat
    /\ proxy' = "done"
    /\ Observe("probe", outcome)
    /\ UNCHANGED <<task_cancel, client_closed, call, shutdown_pc, backend, settings,
                   cached_proxy_tool_definitions, fn, handler>>

\* Two concurrent callers and initialize_proxy, one configuration.
InitConcurrent ==
    /\ InitClient
    /\ call = [c \in Callers |-> IdleCall]
    /\ settings \in SettingsChoices
    /\ settings.retry_max_attempts = 0
    /\ settings.delays = DefaultDelays
    /\ settings.health_check_start_on_first_call
    /\ cached_proxy_tool_definitions = [n \in CatalogueNames |-> ToolDefinition(Absent)]
    /\ proxy = "idle"
    /\ observed = NotObserved
    /\ fn = FnIdle
    /\ handler = HandlerOff

\* The callers call a tool that the catalogue rejects, so that a call is the
\* lazy initialisation of call_tool alone; the requests on the shared client
\* are those of the health check and of the compatibility checks.
NextConcurrent ==
    \/ \E c \in Callers : CallToolEnter(c, "nonexistent_tool_xyz")
    \/ \E c \in Callers, outcome \in Outcomes : CallToolProbeDone(c, outcome)
    \/ \E t \in TaskIds : HealthPing(t)
    \/ \E t \in TaskIds, outcome \in Outcomes : HealthPingDone(t, outcome)
    \/ \E t \in TaskIds : HealthCancelled(t)
    \/ CompatWake
    \/ \E outcome \in Outcomes : CompatPostDone(outcome)
    \/ ShutdownBegin
    \/ ShutdownTaskAwaited
    \/ ShutdownClosed
    \/ BackendFlip
    \/ InitializeProxyEnter
    \/ \E outcome \in Outcomes : InitializeProxyProbeDone(outcome)

SpecConcurrent == InitConcurrent /\ [][NextConcurrent]_vars

(***************************************************************************)
(* The program with its requests observed: one caller, one configuration,  *)
(* and the history variable on.                                            *)
(***************************************************************************)
InitObserved ==
    /\ InitClient
    /\ call = [c \in Callers |-> IF c = "c1" THEN IdleCall ELSE OffCall]
    /\ settings \in SettingsChoices
    /\ settings.retry_max_attempts = 1
    /\ settings.delays = DefaultDelays
    /\ settings.health_check_start_on_first_call
    /\ cached_proxy_tool_definitions = [n \in CatalogueNames |-> ToolDefinition(Absent)]
    /\ proxy = "off"
    /\ observed = Observing
    /\ fn = FnIdle
    /\ handler = HandlerOff

SpecObserved == InitObserved /\ [][Next]_vars

(***************************************************************************)
(* server._get_resources_list_forward and                                  *)
(* server._get_resource_templates_list_forward.  Both read the state, send *)
(* one request through call_method when it is ONLINE, and return either    *)
(* response.get("result", <empty catalogue>) or the cached definitions.    *)
(***************************************************************************)
\* the return value for a completed request: "backend" is the result member
\* of the response, "default" the empty catalogue that dict.get falls back
\* to, "cached" the definitions of get_cached_resource_definitions
ResourcesListResult_uncaught(name, outcome) ==
    IF call_method_raises(outcome) # None THEN Catalogue("raise", name)
    ELSE IF ResponseOf(outcome).kind = "error" THEN Catalogue("cached", name)
    ELSE IF ResponseOf(outcome).kind = "result" THEN Catalogue("backend", name)
    ELSE Catalogue("default", name)

ResourcesListResult(name, outcome) ==
    IF call_method_raises(outcome) # None THEN Catalogue("cached", name)
    ELSE IF ResponseOf(outcome).kind = "error" THEN Catalogue("cached", name)
    ELSE IF ResponseOf(outcome).kind = "result" THEN Catalogue("backend", name)
    ELSE Catalogue("default", name)

\* the handler is called: "if unreal_client.state == ConnectionState.ONLINE"
ResourcesListEnter(name) ==
    /\ handler.pc \in {"idle", "done"}
    /\ handler' = IF state = ONLINE
                  THEN [pc |-> "post", name |-> name, sent |-> TRUE, ret |-> NoCatalogue]
                  ELSE [pc |-> "done", name |-> name, sent |-> FALSE,
                        ret |-> Catalogue("cached", name)]
    /\ UNCHANGED <<state, last_known_good_connection, _health_check_task,
                   _health_check_started, tasks, task_cancel, client_closed, call, compat,
                   shutdown_pc, backend, settings, cached_proxy_tool_definitions,
                   proxy, observed, fn>>

\* get_resources_list / get_resource_templates_list completes (call_method)
ResourcesListPostDone(outcome) ==
    /\ handler.pc = "post"
    /\ CallMethodDone(outcome)
    /\ handler' = [handler EXCEPT !.pc = "done",
                                  !.ret = ResourcesListResult(handler.name, outcome)]
    /\ Observe("resources/list", outcome)
    /\ UNCHANGED <<_health_check_task, _health_check_started, tasks, task_cancel,
                   client_closed, call, compat, shutdown_pc, backend, settings,
                   cached_proxy_tool_definitions, proxy, fn>>

\* The handlers next to initialize_proxy, the health check and shutdown.
InitResources ==
    /\ InitClient
    /\ call = [c \in Callers |-> OffCall]
    /\ settings \in SettingsChoices
    /\ settings.retry_max_attempts = 0
    /\ settings.delays = DefaultDelays
    /\ settings.health_check_start_on_first_call
    /\ cached_proxy_tool_definitions = [n \in CatalogueNames |-> ToolDefinition(Absent)]
    /\ proxy = "idle"
    /\ observed = Observing
    /\ fn = FnIdle
    /\ handler = HandlerIdle

NextResources ==
    \/ \E name \in HandlerNames : ResourcesListEnter(name)
    \/ \E outcome \in Outcomes : ResourcesListPostDone(outcome)
    \/ InitializeProxyEnter
    \/ \E outcome \in Outcomes : InitializeProxyProbeDone(outcome)
    \/ \E t \in TaskIds : HealthPing(t)
    \/ \E t \in TaskIds, outcome \in Outcomes : HealthPingDone(t, outcome)
    \/ \E t \in TaskIds : HealthCancelled(t)
    \/ CompatWake
    \/ \E outcome \in Outcomes : CompatPostDone(outcome)
    \/ ShutdownBegin
    \/ ShutdownTaskAwaited
    \/ ShutdownClosed
    \/ BackendFlip

SpecResources == InitResources /\ [][NextResources]_vars

(***************************************************************************)
(* The program with a backend that answers every request with a JSON-RPC   *)
(* response, a result or an error, and without shutdown: initialize_proxy  *)
(* starts the health check, one caller calls tools.  The event loop runs   *)
(* every task that is ready, so a step of initialize_proxy or of the       *)
(* health-check task that stays enabled is eventually taken.               *)
(***************************************************************************)
JsonRpcAnswers == {"result", "error"}

InitAnswering ==
    /\ InitClient
    /\ backend
    /\ call = [c \in Callers |-> IF c = "c1" THEN IdleCall ELSE OffCall]
    /\ settings \in SettingsChoices
    /\ settings.retry_max_attempts = 0
    /\ settings.delays = DefaultDelays
    /\ settings.health_check_start_on_first_call
    /\ cached_proxy_tool_definitions = [n \in CatalogueNames |-> ToolDefinition(Absent)]
    /\ proxy = "idle"
    /\ observed = NotObserved
    /\ fn = FnIdle
    /\ handler = HandlerOff

InitializeProxyStep ==
    \/ InitializeProxyEnter
    \/ \E outcome \in JsonRpcAnswers : InitializeProxyProbeDone(outcome)

HealthCheckStep ==
    \/ \E t \in TaskIds : HealthPing(t)
    \/ \E t \in TaskIds, outcome \in JsonRpcAnswers : HealthPingDone(t, outcome)

NextAnswering ==
    \/ InitializeProxyStep
    \/ HealthCheckStep
    \/ \E c \in Callers, name \in ToolNames : CallToolEnter(c, name)
    \/ \E c \in Callers, outcome \in JsonRpcAnswers : CallToolProbeDone(c, outcome)
    \/ \E c \in Callers, outcome \in JsonRpcAnswers : CallToolPostDone(c, outcome)
    \/ CompatWake
    \/ \E outcome \in JsonRpcAnswers : CompatPostDone(outcome)

SpecAnswering ==
    /\ InitAnswering
    /\ [][NextAnswering]_vars
    /\ WF_vars(InitializeProxyStep)
    /\ WF_vars(HealthCheckStep)

(***************************************************************************)
(* One caller whose awaits all end: the POST of a tool call and the        *)
(* immediate probe complete (httpx answers, fails or times out) and        *)
(* asyncio.sleep returns, so a step of call_tool that is enabled is        *)
(* eventually taken.  The health check and the compatibility check run     *)
(* beside the caller, the backend goes up and down.                        *)
(***************************************************************************)
InitReturning ==
    /\ InitClient
    /\ call = [c \in Callers |-> IF c = "c1" THEN IdleCall ELSE OffCall]
    /\ settings \in SettingsChoices
    /\ settings.delays = DefaultDelays
    /\ cached_proxy_tool_definitions = [n \in CatalogueNames |-> ToolDefinition(Absent)]
    /\ proxy = "off"
    /\ observed = NotObserved
    /\ fn = FnIdle
    /\ handler = HandlerOff

\* the resumption of caller c's call_tool at the await it is suspended in
CallToolStep(c) ==
    \/ \E outcome \in Outcomes : CallToolProbeDone(c, outcome)
    \/ \E outcome \in Outcomes : CallToolPostDone(c, outcome)
    \/ CallToolSleepDone(c)

NextReturning ==
    \/ \E c \in Callers, name \in ToolNames : CallToolEnter(c, name)
    \/ \E c \in Callers : CallToolStep(c)
    \/ \E t \in TaskIds : HealthPing(t)
    \/ \E t \in TaskIds, outcome \in Outcomes : HealthPingDone(t, outcome)
    \/ CompatWake
    \/ \E outcome \in Outcomes : CompatPostDone(outcome)
    \/ BackendFlip

SpecReturning ==
    /\ InitReturning
    /\ [][NextReturning]_vars
    /\ \A c \in Callers : WF_vars(CallToolStep(c))

(***************************************************************************)
(* The pure functions, called on every input of a bounded set: the input   *)
(* is drawn by the initial state, the action is the call.                  *)
(***************************************************************************)
client_vars == <<state, last_known_good_connection, _health_check_task,
                 _health_check_started, tasks, task_cancel, client_closed, call, compat,
                 shutdown_pc, backend, settings, cached_proxy_tool_definitions, proxy,
                 observed, handler>>

FnCall(op, input) ==
    [op |-> op, input |-> input, output |-> None, done |-> FALSE, passes |-> 0]

\* the arguments create_error_response is called with
ErrorMessages == {"Test error", "X"}
ErrorCodes == {None, "", "test_code"}

InitFn ==
    /\ InitClient
    /\ call = [c \in Callers |-> OffCall]
    /\ settings \in SettingsChoices
    /\ settings.retry_max_attempts = 0
    /\ settings.delays = DefaultDelays
    /\ settings.health_check_start_on_first_call
    /\ backend
    /\ cached_proxy_tool_definitions = [n \in CatalogueNames |-> ToolDefinition(Absent)]
    /\ proxy = "off"
    /\ observed = NotObserved
    /\ handler = HandlerOff
    /\ fn \in { FnCall("handle_tool_result", result) : result \in ToolResults }
             \cup { FnCall("compare_tool_definitions", [cached |-> c, backend |-> b]) :
                        c \in ProxyTools, b \in BackendTools }
             \cup { FnCall("compare_tool_definitions", [cached |-> b, backend |-> b]) :
                        b \in BackendTools }
             \cup { FnCall("is_read_only_tool",
                           [tool_name |-> "custom_tool", tool_definition |-> d,
                            tool_function |-> f]) :
                        d \in {NoDefinition} \cup {ToolDefinition(ro) : ro \in {"True", "False", Absent}},
                        f \in {None, "get_project_config", "execute_console_command",
                               "custom_tool"} }
             \cup { FnCall("create_error_response",
                           [error_message |-> m, error_code |-> c]) :
                        m \in ErrorMessages, c \in ErrorCodes }
             \cup { FnCall("check_tool_compatibility",
                           [state |-> st, outcome |-> o, cached |-> c,
                            backend_tools |-> ts]) :
                        st \in ConnectionState,
                        o \in {"result", "no_result", "error", "connect_error", "bad_body"},
                        c \in CompatCatalogues, ts \in BackendToolLists }

\* "return await handle_tool_result(tool_name, result)" of a tool function
HandleToolResultCall ==
    /\ fn.op = "handle_tool_result"
    /\ ~fn.done
    /\ fn' = [fn EXCEPT !.output = handle_tool_result("get_project_config", fn.input),
                        !.done = TRUE,
                        !.passes = @ + 1]
    /\ UNCHANGED client_vars

\* "result = await _call_tool_wrapper(...)" has returned a structured error of
\* create_error_response; the tool function passes it to
\* _handle_tool_result_wrapper
ForwardErrorResult ==
    /\ fn.op = "create_error_response"
    /\ fn.done
    /\ fn' = FnCall("handle_tool_result", fn.output)
    /\ UNCHANGED client_vars

\* the dict that handle_tool_result returns for an error: what
\* create_error_response builds from the message and the code it was given
ErrorResponseOf(ret) ==
    ErrorResponse(ret.error[1], IF ret.code = Absent THEN None ELSE ret.code)

\* the structured error that handle_tool_result returned is given to
\* handle_tool_result once more
ReapplyHandleToolResult ==
    /\ fn.op = "handle_tool_result"
    /\ fn.done
    /\ fn.passes = 1
    /\ fn.output.kind = "error"
    /\ fn.output.value.error[1] \in ErrorMessages
    /\ fn' = [fn EXCEPT !.input = ErrorResponseOf(fn.output.value),
                        !.output = None,
                        !.done = FALSE]
    /\ UNCHANGED client_vars

\* "issues = compare_tool_definitions(proxy_tool_definition, backend_tool)"
CompareToolDefinitionsCall ==
    /\ fn.op = "compare_tool_definitions"
    /\ ~fn.done
    /\ fn' = [fn EXCEPT !.output = compare_tool_definitions(fn.input.cached,
                                                             fn.input.backend),
                        !.done = TRUE]
    /\ UNCHANGED client_vars

\* "is_read_only = is_read_only_tool(tool_name, proxy_tool_definition, tool_function)"
IsReadOnlyToolCall ==
    /\ fn.op = "is_read_only_tool"
    /\ ~fn.done
    /\ fn' = [fn EXCEPT !.output = is_read_only_tool(fn.input.tool_name,
                                                      fn.input.tool_definition,
                                                      fn.input.tool_function),
                        !.done = TRUE]
    /\ UNCHANGED client_vars

\* "await check_tool_compatibility(unreal_client, _cached_proxy_tool_definitions)"
CheckToolCompatibilityCall ==
    /\ fn.op = "check_tool_compatibility"
    /\ ~fn.done
    /\ fn' = [fn EXCEPT !.output = check_tool_compatibility(fn.input.state, fn.input.outcome,
                                                            fn.input.cached,
                                                            fn.input.backend_tools),
                        !.done = TRUE]
    /\ UNCHANGED client_vars

\* "return create_error_response(error_message, error_code)"
CreateErrorResponseCall ==
    /\ fn.op = "create_error_response"
    /\ ~fn.done
    /\ fn' = [fn EXCEPT !.output = ErrorResponse(fn.input.error_message,
                                                  fn.input.error_code),
                        !.done = TRUE]
    /\ UNCHANGED client_vars

NextFn ==
    \/ HandleToolResultCall
    \/ CompareToolDefinitionsCall
    \/ IsReadOnlyToolCall
    \/ CreateErrorResponseCall
    \/ CheckToolCompatibilityCall
    \/ ForwardErrorResult
    \/ ReapplyHandleToolResult

SpecFn == InitFn /\ [][NextFn]_vars

TypeOK ==
    /\ state \in ConnectionState
    /\ last_known_good_connection \in 0..2
    /\ _health_check_task \in {0} \cup TaskIds
    /\ compat.sleep \in Nat /\ compat.post \in Nat


(***************************************************************************)
(* Properties.                                                             *)
(***************************************************************************)
\* a frame of call_tool that was entered
Entered(c) == call[c].pc \notin {"idle", "off"}
Done(c) == call[c].pc = "done"
\* the frame reached call_tool_with_retry
Forwarded(c) == Entered(c) /\ call[c].calls > 0
InCatalogue(name) == name \in DOMAIN cached_proxy_tool_definitions
\* the classification of the tool, from the decorator and the definition
ReadOnlyTool(name) ==
    is_read_only_tool(name, CatalogueGet(cached_proxy_tool_definitions, name),
                      ServerFunction(name))
Unclassified(name) ==
    /\ get_tool_read_only_flag(ServerFunction(name)) = None
    /\ CatalogueGet(cached_proxy_tool_definitions, name).readOnly = Absent
MaxRetries == settings.retry_max_attempts

\* C1: the connection state is always one of UNKNOWN, ONLINE, OFFLINE, and no
\* step of any coroutine takes it from ONLINE or OFFLINE back to UNKNOWN.
C1_NeverBackToUnknown ==
    /\ [](state \in ConnectionState)
    /\ [][state # UNKNOWN => state' # UNKNOWN]_vars

\* The state left UNKNOWN, a tool call returned, the health check ran and
\* shutdown completed.
C1_Witness ==
    /\ state = OFFLINE
    /\ shutdown_pc = "done"
    /\ \E c \in Callers : Done(c) /\ call[c].calls > 0
    /\ \E t \in TaskIds : tasks[t] = "done"
    /\ last_known_good_connection # 0

\* C2 as stated: a tool name outside the catalogue causes no network request
\* (neither tools/call nor the immediate probe) and returns isError=true,
\* for every catalogue, the empty one included.
C2_Original ==
    \A c \in Callers :
        Entered(c) /\ ~InCatalogue(call[c].tool_name) =>
            /\ call[c].calls = 0
            /\ call[c].probes = 0
            /\ Done(c) => call[c].ret.isError

\* C2 amended: with a non-empty catalogue, a tool name outside it never
\* reaches tools/call and returns the "not found" error; the only request the
\* call can issue is the one immediate probe of the lazy initialisation, which
\* happens exactly when lazy start is enabled and the call was entered with
\* the health check not started and the state UNKNOWN.  With an empty catalogue
\* the existence test is skipped: no call returns "not found".
C2_Amended ==
    \A c \in Callers :
        Entered(c) =>
            /\ (~InCatalogue(call[c].tool_name) /\ DOMAIN cached_proxy_tool_definitions # {}) =>
                  /\ call[c].calls = 0
                  /\ call[c].pc \in {"probe", "done"}
                  /\ Done(c) => call[c].ret =
                         create_error_response(Msg(NOT_FOUND, call[c].tool_name), None)
                  /\ call[c].probes \in {0, 1}
                  /\ call[c].probes = 1 =>
                         /\ settings.health_check_start_on_first_call
                         /\ call[c].entry_state = UNKNOWN
            /\ (DOMAIN cached_proxy_tool_definitions = {} /\ Done(c)) =>
                  call[c].ret.error[1] # NOT_FOUND

\* An unknown tool was rejected after the immediate probe had been sent.
C2_Witness ==
    \E c \in Callers :
        /\ Done(c)
        /\ ~InCatalogue(call[c].tool_name)
        /\ DOMAIN cached_proxy_tool_definitions # {}
        /\ call[c].probes = 1
        /\ call[c].ret.isError

\* C3: a call for a catalogued tool entered while the state is OFFLINE returns
\* the "not available" error at once and sends nothing (no tools/call, no probe).
C3_OfflineFailsFast ==
    \A c \in Callers :
        (Entered(c) /\ call[c].entry_state = OFFLINE /\ InCatalogue(call[c].tool_name)) =>
            /\ Done(c)
            /\ call[c].ret = create_error_response(Msg(NOT_AVAILABLE, None), None)
            /\ call[c].calls = 0
            /\ call[c].probes = 0

\* A catalogued read-only tool was rejected while OFFLINE, on the lazy-start path
\* as well (a health check created by this very call).
C3_Witness ==
    \E c \in Callers :
        /\ Done(c)
        /\ call[c].entry_state = OFFLINE
        /\ call[c].tool_name = "get_project_config"
        /\ InCatalogue(call[c].tool_name)
        /\ call[c].ret.isError
        /\ \E t \in TaskIds : tasks[t] = "created"
        /\ state = OFFLINE

\* C4: for a write / non-idempotent tool, call_tool_with_retry invokes the
\* transport exactly once whatever the outcome, never sleeps, and a failure of
\* that attempt leaves as the very exception call_method raised.
C4_WriteCalledOnce ==
    \A c \in Callers :
        (Forwarded(c) /\ ~ReadOnlyTool(call[c].tool_name)) =>
            /\ call[c].calls = 1
            /\ call[c].waits = <<>>
            /\ call[c].pc \in {"post", "done"}
            /\ Done(c) => call[c].raised = call_method_raises(call[c].last_outcome)

\* A write tool failed with a transient error and was not retried although
\* retries are configured.
C4_Witness ==
    \E c \in Callers :
        /\ Done(c)
        /\ call[c].tool_name = "execute_console_command"
        /\ call[c].calls = 1
        /\ call[c].last_outcome = "connect_error"
        /\ call[c].raised = "ConnectionError"
        /\ MaxRetries > 0

\* C5: for a read-only tool whose transport fails transiently k times,
\* k <= retry_max_attempts, the loop does not give up: the call ends only after
\* attempt k+1 answered, the transport was invoked exactly k+1 times, and when
\* that answer is a result call_tool returns it.
C5_RetryThenSuccess ==
    \A c \in Callers :
        (Forwarded(c) /\ Done(c) /\ ReadOnlyTool(call[c].tool_name)
                      /\ call[c].failures <= MaxRetries) =>
            /\ call[c].calls = call[c].failures + 1
            /\ call[c].last_outcome \notin FailureOutcomes
            /\ call[c].last_outcome = "result" => call[c].ret = SuccessReturn("payload")

\* Two transient failures, then a result: three invocations, success, and the
\* state had been set OFFLINE by the failures.
C5_Witness ==
    \E c \in Callers :
        /\ Done(c)
        /\ ReadOnlyTool(call[c].tool_name)
        /\ call[c].failures = 2
        /\ call[c].calls = 3
        /\ call[c].last_outcome = "result"
        /\ call[c].ret = SuccessReturn("payload")

\* C6: for a read-only tool the transport is invoked at most
\* retry_max_attempts + 1 times; when every attempt failed transiently it was
\* invoked exactly that many times and the last transient error is raised.
C6_AtMostNPlusOne ==
    \A c \in Callers :
        (Forwarded(c) /\ ReadOnlyTool(call[c].tool_name)) =>
            /\ call[c].calls <= MaxRetries + 1
            /\ (Done(c) /\ call[c].failures = call[c].calls) =>
                  /\ call[c].calls = MaxRetries + 1
                  /\ call[c].raised = call_method_raises(call[c].last_outcome)
                  /\ is_transient_error(call[c].raised)

\* All retry_max_attempts + 1 attempts failed (with retries configured), the
\* last one by a timeout.
C6_Witness ==
    \E c \in Callers :
        /\ Done(c)
        /\ ReadOnlyTool(call[c].tool_name)
        /\ MaxRetries = MaxRetryAttempts
        /\ call[c].calls = MaxRetries + 1
        /\ call[c].failures = call[c].calls
        /\ call[c].raised = "TimeoutError"

\* C7: for a read-only tool only a transient failure leads to a wait and a
\* further attempt; the first outcome of any other kind ends the loop, so the
\* number of invocations is the index of the first non-transient outcome.
C7_OnlyTransientRetried ==
    \A c \in Callers :
        (Forwarded(c) /\ ReadOnlyTool(call[c].tool_name)) =>
            /\ call[c].pc = "sleep" => call[c].last_outcome \in FailureOutcomes
            /\ call[c].pc = "post" => call[c].failures = call[c].calls - 1
            /\ (Done(c) /\ call[c].last_outcome \notin FailureOutcomes) =>
                  call[c].calls = call[c].failures + 1
            /\ call[c].last_outcome \in (AnswerOutcomes \cup {"client_closed"}) => Done(c)

\* A retried read-only call ended at its second attempt on a non-2xx answer.
C7_Witness ==
    \E c \in Callers :
        /\ Done(c)
        /\ ReadOnlyTool(call[c].tool_name)
        /\ call[c].failures = 1
        /\ call[c].calls = 2
        /\ call[c].last_outcome = "http_error"
        /\ call[c].raised = "HTTPError"

\* the delay schedule of the specification: min(initial * factor^a, max)
ScheduledWait(a) ==
    RatMin(RatMul(settings.delays.retry_initial_delay,
                  RatPow(settings.delays.retry_backoff_factor, a)),
           settings.delays.retry_max_delay)

\* C8: the wait before retry a (from 0) is min(initialDelay * factor^a,
\* maxDelay), no wait exceeds maxDelay, and waits happen only between two
\* attempts: one wait fewer than attempts once the next attempt was started.
C8_DelaySchedule ==
    \A c \in Callers :
        Forwarded(c) =>
            /\ \A i \in 1..Len(call[c].waits) :
                  /\ RatEq(call[c].waits[i], ScheduledWait(i - 1))
                  /\ RatLE(call[c].waits[i], settings.delays.retry_max_delay)
            /\ call[c].pc \in {"post", "done"} => Len(call[c].waits) = call[c].calls - 1
            /\ call[c].pc = "sleep" => Len(call[c].waits) = call[c].calls

\* Two waits happened, the second one cut down to retry_max_delay.
C8_Witness ==
    \E c \in Callers :
        /\ Done(c)
        /\ Len(call[c].waits) = 2
        /\ call[c].calls = 3
        /\ RatEq(call[c].waits[2], settings.delays.retry_max_delay)
        /\ ~RatLE(RatMul(settings.delays.retry_initial_delay,
                         settings.delays.retry_backoff_factor),
                  settings.delays.retry_max_delay)

\* C9: a tool with neither a decorator flag nor a readOnly field is classified
\* as not read-only and is never retried.
C9_UnclassifiedNotRetried ==
    \A c \in Callers :
        (Forwarded(c) /\ Unclassified(call[c].tool_name)) =>
            /\ ~call[c].is_read_only
            /\ call[c].calls = 1
            /\ call[c].waits = <<>>
            /\ call[c].pc # "sleep"

\* An unclassified catalogued tool failed transiently and was not retried.
C9_Witness ==
    \E c \in Callers :
        /\ Done(c)
        /\ call[c].tool_name = "custom_tool"
        /\ InCatalogue("custom_tool")
        /\ Unclassified("custom_tool")
        /\ call[c].last_outcome = "timeout"
        /\ call[c].calls = 1
        /\ MaxRetries > 0

\* C10: call_tool never raises: whatever the tool, the state and the outcomes
\* of the probe and of the transport, it returns a structured error
\* (isError=true) or the result object of the backend's response.
C10_NeverRaises ==
    \A c \in Callers :
        Done(c) =>
            /\ call[c].ret.value # "<exception>"
            /\ \/ call[c].ret.isError
               \/ /\ call[c].calls > 0
                  /\ call_method_raises(call[c].last_outcome) = None
                  /\ call[c].ret =
                        SuccessReturn(ResponseGetResult(ResponseOf(call[c].last_outcome)))

\* A call whose transport raised an exception that is neither a connection
\* error nor a timeout returned the internal_error result.
C10_Witness ==
    \E c \in Callers :
        /\ Done(c)
        /\ call[c].last_outcome = "error_malformed"
        /\ call[c].raised = "AttributeError"
        /\ call[c].ret.isError
        /\ call[c].ret.code = "internal_error"

\* C11 as stated: call_tool maps each failure class of a forwarded call to its
\* own structured error: a JSON-RPC error response to an error with the
\* backend's message and the backend's code, a timeout to the "timed out" error
\* with code timeout_error, a connection failure to the "failed to connect"
\* error with code connection_error, any other exception to internal_error
\* with the exception's message.
C11_Original ==
    \A c \in Callers :
        (Done(c) /\ call[c].calls > 0) =>
            LET response == ResponseOf(call[c].last_outcome)
                exc == call_method_raises(call[c].last_outcome)
            IN  /\ (exc = None /\ response.kind = "error") =>
                      /\ call[c].ret.isError
                      /\ response.message # None => call[c].ret.error[1] = response.message
                      /\ response.has_code => call[c].ret.code = Str(response.code)
                /\ exc = "TimeoutError" =>
                      /\ call[c].ret.isError
                      /\ call[c].ret.error = Msg("Request to Unreal MCP server timed out", exc)
                      /\ call[c].ret.code = "timeout_error"
                /\ exc = "ConnectionError" =>
                      /\ call[c].ret.isError
                      /\ call[c].ret.error = Msg("Failed to connect to Unreal MCP server", exc)
                      /\ call[c].ret.code = "connection_error"
                /\ exc \notin {None, "TimeoutError", "ConnectionError"} =>
                      /\ call[c].ret.isError
                      /\ call[c].ret.error = Msg("Failed to call tool", exc)
                      /\ call[c].ret.code = "internal_error"

\* the first content item of the tool result that handle_tool_result was given
FnContent == FirstContent(fn.input)
\* the result is transport-successful and its text content decodes to an object
DecodesToObject ==
    /\ fn.op = "handle_tool_result"
    /\ fn.input.isError # "True"
    /\ fn.input.content # Content(<<>>)
    /\ FnContent.type = "text"
    /\ FnContent.text \in JsonTexts
    /\ JsonLoads(FnContent.text).json = "object"

\* C12: for a transport-successful tool result whose text content decodes to
\* an object, handle_tool_result returns a structured error (isError=true)
\* with the payload's "error" text as message when bSuccess is false, and the
\* decoded object itself, unchanged, when bSuccess is true or absent.
C12_BusinessFailureUnwrapped ==
    (fn.done /\ DecodesToObject) =>
        LET payload == JsonLoads(FnContent.text)
        IN  /\ payload.bSuccess = "false" =>
                  /\ fn.output.kind = "error"
                  /\ fn.output.value.isError
                  /\ payload.error # Absent =>
                         fn.output.value.error = Msg(payload.error, None)
            /\ payload.bSuccess \in {"true", Absent} =>
                  fn.output = Returned("parsed", payload)

\* {"bSuccess": false, "error": "X"} was turned into the error "X".
C12_Witness ==
    /\ fn.done
    /\ DecodesToObject
    /\ FnContent.text = "{\"bSuccess\": false, \"error\": \"X\"}"
    /\ fn.output.kind = "error"
    /\ fn.output.value = create_error_response(Msg("X", None), None)

\* a step that creates a check_compatibility_when_online task
CompatSpawned == compat'.sleep > compat.sleep
\* a step in which the lazy initialisation of a tool call, or initialize_proxy,
\* comes to its end
ProbedInitEnds == \E c \in Callers : call[c].pc = "probe" /\ call'[c].pc # "probe"
FirstCallEnters(c) == call[c].pc = "idle" /\ call'[c].pc # "idle"
LazyStart == settings.health_check_start_on_first_call /\ ~_health_check_started
InitializeProxyEnds == proxy # "done" /\ proxy' = "done"

ObservedProbe == observed.by = "probe"
ObservedPing == observed.by = "ping"
ObservedCheck == observed.by = "tools/list"
\* call_method returned the decoded body of the observed request
ObservedReturned == call_method_raises(observed.outcome) = None

\* C14: the immediate probe of initialize_async leaves the state OFFLINE exactly
\* when the probe failed with a connection error or a timeout, and ONLINE for
\* every other outcome: a result, a JSON-RPC error, a non-2xx status, a body
\* that is not JSON.
C14_ProbeSetsState ==
    ObservedProbe =>
        /\ observed.after \in {ONLINE, OFFLINE}
        /\ observed.after = OFFLINE <=> observed.outcome \in {"connect_error", "timeout"}
        /\ observed.outcome \in {"result", "no_result", "error", "error_code0",
                                 "error_bare", "error_malformed", "http_error",
                                 "bad_body"} => observed.after = ONLINE

\* The probe of the first tool call was answered with a non-2xx status and
\* the state went from UNKNOWN to ONLINE.
C14_Witness ==
    /\ ObservedProbe
    /\ observed.outcome = "http_error"
    /\ observed.before = UNKNOWN
    /\ observed.after = ONLINE
    /\ state = ONLINE
    /\ call["c1"].probes = 1

\* C15 as stated: after an iteration of the health-check loop the state is
\* ONLINE when the ping was answered with a response (a result or a JSON-RPC
\* error object) and OFFLINE when the ping raised.
C15_Original ==
    ObservedPing =>
        /\ (ObservedReturned /\ ResponseOf(observed.outcome).kind \in {"result", "error"}) =>
               observed.after = ONLINE
        /\ ~ObservedReturned => observed.after = OFFLINE

\* C16: a completed call_method sets the state from its outcome: when it
\* returns the backend's response (a result or a JSON-RPC error object) the
\* state is ONLINE and last_known_good_connection is refreshed; when the
\* request fails with a connection error or a timeout the state is OFFLINE and
\* last_known_good_connection is unchanged.  (After a ping the loop overwrites
\* the state at once: for a ping the timestamp alone is compared.)
C16_CallMethodUpdatesHealth ==
    observed.by \in {"call_tool", "tools/list", "ping"} =>
        /\ ObservedReturned =>
              /\ observed.by # "ping" => observed.after = ONLINE
              /\ observed.lkg_after # 0
              /\ observed.lkg_after # observed.lkg_before
        /\ observed.outcome \in FailureOutcomes =>
              /\ observed.after = OFFLINE
              /\ observed.lkg_after = observed.lkg_before

\* A tools/call that timed out took the state from ONLINE to OFFLINE and left
\* the timestamp of the earlier response in place.
C16_Witness ==
    /\ observed.by = "call_tool"
    /\ observed.outcome = "timeout"
    /\ observed.before = ONLINE
    /\ observed.after = OFFLINE
    /\ observed.lkg_before # 0
    /\ last_known_good_connection = observed.lkg_before

\* a step in which the ping of task t completes
PingCompletes(t) == tasks[t] = "ping" /\ tasks'[t] # "ping"

\* C17: a started health-check task ends only by cancellation: a completed
\* ping, whatever its outcome, leaves the task suspended in its sleep, from
\* which it pings again, and changes nothing but the connection state (and the
\* timestamp of a response); nothing is raised into another coroutine.
C17_LoopSurvivesProbes ==
    /\ [](\A t \in TaskIds : TaskDone(t) => t \in task_cancel)
    /\ [][\A t \in TaskIds :
              /\ (PingCompletes(t) /\ t \notin task_cancel) =>
                    /\ tasks'[t] = "sleep"
                    /\ UNCHANGED <<_health_check_task, _health_check_started, task_cancel,
                                   client_closed, call, compat, shutdown_pc, proxy>>
              /\ (tasks[t] = "sleep" /\ tasks'[t] # "sleep") =>
                    tasks'[t] = IF t \in task_cancel THEN "done" ELSE "ping"]_vars

\* The ping was answered with a non-2xx status: the state went OFFLINE and the
\* task is in its sleep, not cancelled.
C17_Witness ==
    /\ ObservedPing
    /\ observed.outcome = "http_error"
    /\ observed.before = ONLINE
    /\ state = OFFLINE
    /\ \E t \in TaskIds : tasks[t] = "sleep" /\ t \notin task_cancel /\ _health_check_task = t

\* a step in which shutdown returns
ShutdownReturns == shutdown_pc # "done" /\ shutdown_pc' = "done"

\* C18 as stated: shutdown cancels a running health-check task and waits for
\* its end before it closes the HTTP client (a cancelled task that is still
\* alive, in its sleep or in a ping, means that shutdown is waiting and the
\* client is open; the client is closed only by the last step of shutdown), and
\* when shutdown returns no health-check task is alive and the client is closed.
C18_Original ==
    /\ [](/\ \A t \in TaskIds :
                (t \in task_cancel /\ Alive(t)) =>
                    shutdown_pc = "await_task" /\ ~client_closed
          /\ shutdown_pc \in {"aclose", "done"} => \A t \in task_cancel : TaskDone(t)
          /\ client_closed => shutdown_pc = "done")
    /\ [][ShutdownReturns =>
              /\ client_closed'
              /\ \A t \in TaskIds : ~Alive(t)']_vars

AliveTasks == {t \in TaskIds : Alive(t)}

\* C19: under every interleaving of two concurrent first tool calls,
\* initialize_proxy (each able to be suspended in the immediate probe of
\* initialize_async), the health check and shutdown, at most one health-check
\* task is alive, it is the one the client holds, and no step creates a task
\* while the client's task is alive.
C19_AtMostOneTask ==
    /\ [](/\ Cardinality(AliveTasks) <= 1
          /\ \A t \in AliveTasks : _health_check_task = t)
    /\ [][(_health_check_task # 0 /\ Alive(_health_check_task)) =>
              /\ \A t \in TaskIds : tasks[t] = "unborn" => tasks'[t] = "unborn"
              /\ _health_check_task' = _health_check_task]_vars

\* Both tool calls and initialize_proxy went through the immediate probe, and
\* one task was created.
C19_Witness ==
    /\ \A c \in Callers : Done(c) /\ call[c].probes = 1
    /\ proxy = "done"
    /\ _health_check_task = 1
    /\ Alive(1)
    /\ tasks[2] = "unborn"
    /\ shutdown_pc = "idle"

\* C20 as stated: the request of check_tool_compatibility leaves
\* ConnectionState as it found it, whatever the reply or failure.
C20_Original ==
    ObservedCheck => observed.after = observed.before

\* a step in which the tools/list request of a compatibility check completes
CheckCompletes == compat'.post < compat.post

\* C20 amended: check_tool_compatibility raises nothing and its comparison
\* changes nothing: the completing check changes no tool call, no task, not the
\* catalogue, the settings or shutdown.  Its tools/list request goes through
\* call_method like any other: the state is ONLINE after a returned response
\* and OFFLINE after any failure, whatever it was before.
C20_Amended ==
    /\ [](ObservedCheck =>
              observed.after = IF ObservedReturned THEN ONLINE ELSE OFFLINE)
    /\ [][CheckCompletes =>
              UNCHANGED <<_health_check_task, _health_check_started, tasks, task_cancel,
                          client_closed, call, shutdown_pc, settings,
                          cached_proxy_tool_definitions, proxy>>]_vars

\* A compatibility check started while ONLINE; its tools/list request failed
\* to connect and left the state OFFLINE.
C20_Witness ==
    /\ ObservedCheck
    /\ observed.outcome = "connect_error"
    /\ observed.before = ONLINE
    /\ observed.after = OFFLINE
    /\ state = OFFLINE

\* compare_tool_definitions was called on two definitions with the same name
Compared ==
    /\ fn.op = "compare_tool_definitions"
    /\ fn.done
    /\ fn.input.cached.name = fn.input.backend.name
\* the issues of one kind in the returned list
IssuesOfKind(kind) == SelectSeq(fn.output, LAMBDA i : i.kind = kind)
\* the backend's required fields that the proxy schema's properties lack
MissingFields ==
    { f \in Fields :
        /\ \E i \in DOMAIN fn.input.backend.inputSchema.required :
               fn.input.backend.inputSchema.required[i] = f
        /\ f \notin DOMAIN fn.input.cached.inputSchema.properties }
\* local {required:[a], properties:{a:string}} against
\* backend {required:[a,b], properties:{a:string, b:integer}}
MissingRequiredExample ==
    /\ fn.op = "compare_tool_definitions"
    /\ fn.input.cached.name = "t"
    /\ fn.input.backend.name = "t"
    /\ fn.input.cached.inputSchema =
           InputSchema(<<"a">>, [f \in {"a"} |-> Property("string", "d1", Absent)])
    /\ fn.input.backend.inputSchema =
           InputSchema(<<"a", "b">>,
                       [f \in {"a", "b"} |-> IF f = "a"
                                             THEN Property("string", "d1", Absent)
                                             ELSE Property("integer", "d1", Absent)])

\* C21: for two definitions of the same tool, compare_tool_definitions returns
\* a missing-field issue exactly when some field of the backend's required
\* list is not among the proxy schema's properties; there is at most one such
\* issue and it names exactly those fields; for the example schemas the result
\* is exactly one issue, naming b.
C21_MissingRequiredReported ==
    Compared =>
        LET missing == IssuesOfKind("Missing required fields in proxy schema")
        IN  /\ (MissingFields # {}) <=> (missing # <<>>)
            /\ Len(missing) <= 1
            /\ missing # <<>> =>
                   { missing[1].fields[i] : i \in DOMAIN missing[1].fields } = MissingFields
            /\ MissingRequiredExample =>
                   fn.output = <<Issue("Missing required fields in proxy schema", <<"b">>,
                                       Absent, Absent)>>

\* The example was compared and gave one issue.
C21_Witness ==
    /\ Compared
    /\ MissingRequiredExample
    /\ Len(fn.output) = 1
    /\ fn.output[1].fields = <<"b">>

\* field f is a property of both schemas and both declare its type
InBoth(f) ==
    /\ f \in DOMAIN fn.input.cached.inputSchema.properties
    /\ f \in DOMAIN fn.input.backend.inputSchema.properties
    /\ fn.input.cached.inputSchema.properties[f].type # Absent
    /\ fn.input.backend.inputSchema.properties[f].type # Absent
BackendRequires(f) ==
    \E i \in DOMAIN fn.input.backend.inputSchema.required :
        fn.input.backend.inputSchema.required[i] = f
\* integer and number are interchangeable, every other type matches itself only
Interchangeable(t1, t2) == t1 = t2 \/ {t1, t2} = {"integer", "number"}
TypeIssueFor(f) ==
    \E i \in DOMAIN fn.output :
        /\ fn.output[i].kind = "Type mismatch for required field"
        /\ fn.output[i].fields = <<f>>
DeclaredTypesDiffer(f) ==
    ~Interchangeable(fn.input.cached.inputSchema.properties[f].type,
                     fn.input.backend.inputSchema.properties[f].type)

\* C22 as stated: for every field present in both schemas, required by the
\* backend or not, a type issue is reported exactly when the declared types
\* are incompatible.
C22_Original ==
    Compared =>
        \A f \in Fields : InBoth(f) => (TypeIssueFor(f) <=> DeclaredTypesDiffer(f))

\* C22 amended: for every field that the backend lists as required and
\* that both schemas declare with a type, a type issue is reported exactly
\* when the types are incompatible (integer and number interchangeable, every
\* other type compatible with itself only); for a field the backend does not
\* list as required, or whose type is missing on one side, no type issue is
\* reported.
C22_Amended ==
    Compared =>
        \A f \in Fields :
            /\ (InBoth(f) /\ BackendRequires(f)) =>
                   (TypeIssueFor(f) <=> DeclaredTypesDiffer(f))
            /\ ~(InBoth(f) /\ BackendRequires(f)) => ~TypeIssueFor(f)

\* A required field declared integer by the proxy and string by the backend
\* was reported, next to a required field declared integer by both.
C22_Witness ==
    /\ Compared
    /\ InBoth("a") /\ InBoth("b")
    /\ fn.input.backend.inputSchema.required = <<"a", "b">>
    /\ fn.input.cached.inputSchema.properties["a"].type = "integer"
    /\ fn.input.backend.inputSchema.properties["a"].type = "string"
    /\ fn.input.cached.inputSchema.properties["b"].type = "integer"
    /\ fn.input.backend.inputSchema.properties["b"].type = "integer"
    /\ fn.output = <<Issue("Type mismatch for required field", <<"a">>, "integer", "string")>>

\* compare_tool_definitions has returned, for any two definitions
ComparedAny == fn.op = "compare_tool_definitions" /\ fn.done
\* the definition with another description, and with another description and
\* default value of each of its properties
Redescribed(tool) ==
    [tool EXCEPT !.description = "another description",
                 !.inputSchema.properties =
                     [f \in DOMAIN @ |-> [@[f] EXCEPT !.description = "d3", !.default = "0"]]]
\* the proxy definition with one more property that the backend does not require
WithExtraProperty(tool, backend_tool) ==
    { [tool EXCEPT !.inputSchema.properties =
                       [g \in DOMAIN @ \cup {f} |-> IF g = f THEN Property(t, "extra", Absent)
                                                   ELSE @[g]]] :
          f \in { h \in Fields \ DOMAIN tool.inputSchema.properties :
                      \A i \in DOMAIN backend_tool.inputSchema.required :
                          backend_tool.inputSchema.required[i] # h },
          t \in Types }
ResultUnchanged ==
    /\ compare_tool_definitions(Redescribed(fn.input.cached), fn.input.backend) = fn.output
    /\ compare_tool_definitions(fn.input.cached, Redescribed(fn.input.backend)) = fn.output
    /\ \A extended \in WithExtraProperty(fn.input.cached, fn.input.backend) :
           compare_tool_definitions(extended, fn.input.backend) = fn.output
\* every field of the definition's required list is one of its properties
RequiredDeclared(tool) ==
    \A i \in DOMAIN tool.inputSchema.required :
        tool.inputSchema.required[i] \in DOMAIN tool.inputSchema.properties

\* C23 as stated: the result does not change when the proxy definition gains
\* an extra optional property or when descriptions or defaults differ, and a
\* definition compared with itself gives no issues.
C23_Original ==
    ComparedAny =>
        /\ ResultUnchanged
        /\ fn.input.cached = fn.input.backend => fn.output = <<>>

\* C23 amended: the result does not change when the proxy definition gains a
\* property that the backend does not require or when descriptions or
\* defaults differ; a definition compared with itself gives no issues if
\* every field of its required list is among its properties, and otherwise
\* exactly one issue, of missing required fields.
C23_Amended ==
    ComparedAny =>
        /\ ResultUnchanged
        /\ fn.input.cached = fn.input.backend =>
               IF RequiredDeclared(fn.input.backend) THEN fn.output = <<>>
               ELSE /\ Len(fn.output) = 1
                    /\ fn.output[1].kind = "Missing required fields in proxy schema"

\* A definition with the required field a, declared with a description, was
\* compared with itself and gave no issues; it can gain the property b.
C23_Witness ==
    /\ ComparedAny
    /\ fn.input.cached = fn.input.backend
    /\ fn.input.backend.inputSchema.required = <<"a">>
    /\ DOMAIN fn.input.backend.inputSchema.properties = {"a"}
    /\ WithExtraProperty(fn.input.cached, fn.input.backend) # {}
    /\ fn.output = <<>>

\* is_read_only_tool has returned
ReadOnlyAsked == fn.op = "is_read_only_tool" /\ fn.done
\* the decorator flag of the function that is_read_only_tool was given
DecoratorFlag ==
    IF fn.input.tool_function = None THEN None
    ELSE get_tool_read_only_flag(fn.input.tool_function)

\* C24: is_read_only_tool returns True for a function decorated @read_only
\* and False for one decorated @write_operation, whatever the definition's
\* readOnly field says; the readOnly field of the definition decides only
\* when the function is absent or undecorated.
C24_DecoratorDecides ==
    ReadOnlyAsked =>
        /\ DecoratorFlag = "True" => fn.output = TRUE
        /\ DecoratorFlag = "False" => fn.output = FALSE
        /\ (DecoratorFlag = None /\ fn.input.tool_definition.readOnly # Absent) =>
               fn.output = (fn.input.tool_definition.readOnly = "True")

\* A @write_operation function was given with a definition that says
\* readOnly true, and the answer was False.
C24_Witness ==
    /\ ReadOnlyAsked
    /\ fn.input.tool_function = "execute_console_command"
    /\ fn.input.tool_definition = ToolDefinition("True")
    /\ fn.output = FALSE

\* create_error_response has returned
ErrorResponseMade == fn.op = "create_error_response" /\ fn.done

\* C25 as stated: create_error_response(message, code) returns isError true
\* with exactly one content item, of type text, whose text decodes to an
\* object with error = message, with code = the given code whenever a code is
\* given and without a code member when none is given.
C25_Original ==
    ErrorResponseMade =>
        /\ fn.output.isError = "True"
        /\ fn.output.content.present
        /\ Len(fn.output.content.items) = 1
        /\ fn.output.content.items[1].type = "text"
        /\ LET body == JsonLoads(fn.output.content.items[1].text)
           IN  /\ body.json = "object"
               /\ body.error = fn.input.error_message
               /\ fn.input.error_code # None => body.code = fn.input.error_code
               /\ fn.input.error_code = None => body.code = Absent

\* a step in which a resource list handler is entered, and one in which its
\* request completes
HandlerEnters == handler.pc \in {"idle", "done"} /\ handler' # handler
HandlerRequestEnds == handler.pc = "post" /\ handler' # handler

TaskCreated == \E t \in TaskIds : tasks[t] = "unborn" /\ tasks'[t] # "unborn"

\* C27 as stated: once shutdown has returned, no step creates a health-check
\* task, and no task is alive.
C27_Original ==
    [][shutdown_pc = "done" => (~TaskCreated /\ \A t \in TaskIds : ~Alive(t)')]_vars

\* C28 as stated: every request to the backend, the immediate probe included,
\* is posted on the one client that __init__ created; no other client is ever
\* constructed, and that client is closed by shutdown only.
C28_Original ==
    /\ observed.by # None => observed.via = "self.client"
    /\ observed.clients = 1
    /\ client_closed <=> shutdown_pc = "done"

\* C28 amended: forwarded tool calls, periodic pings and the compatibility
\* check's tools/list are posted on the one client that __init__ created,
\* which is never re-created and is closed by shutdown only, as its last
\* step; every immediate probe constructs a client of its own and posts on
\* it, and no other request constructs a client.
C28_Amended ==
    /\ observed.by \in {"call_tool", "ping", "tools/list"} => observed.via = "self.client"
    /\ observed.by = "probe" => (observed.via = "quick_client" /\ observed.clients > 1)
    /\ observed.clients > 1 => state # UNKNOWN
    /\ client_closed <=> shutdown_pc = "done"

\* A probe was made on a client of its own, a tool call was forwarded on the
\* shared client, and shutdown has closed the shared client.
C28_Witness ==
    /\ observed.by = "call_tool"
    /\ observed.via = "self.client"
    /\ observed.clients = 2
    /\ client_closed

\* C29 as stated: with the health-check task running and a backend that
\* answers every request, with a result or with a JSON-RPC error, the state
\* eventually becomes ONLINE and stays ONLINE.
C29_Original == <>[](state = ONLINE)

\* a step of caller c's call_tool: its entry, and the completion of its
\* immediate probe or of a request it sent
CallToolEnters(c) == call[c].pc \in {"idle", "done"} /\ call'[c] # call[c]
CallToolRequestEnds(c) == call[c].pc \in {"probe", "post"} /\ call'[c] # call[c]

\* C30 as stated: no step of call_tool taken while the state is OFFLINE
\* changes the state.
C30_Original ==
    [][\A c \in Callers :
           (state = OFFLINE /\ call'[c] # call[c]) => state' = OFFLINE]_vars

\* C30 amended: a call_tool that is entered while the state is OFFLINE
\* returns in the same step, without a probe or a request and with the state
\* unchanged; the state leaves OFFLINE only in a step that completes a
\* request: of the health-check loop, of the compatibility check, or of a
\* call_tool that was entered before (its immediate probe, its request in
\* flight or a retry attempt).
C30_Amended ==
    [][/\ \A c \in Callers :
              (state = OFFLINE /\ CallToolEnters(c)) =>
                  /\ state' = OFFLINE
                  /\ call'[c].pc = "done"
                  /\ call'[c].calls = 0
                  /\ call'[c].probes = 0
       /\ (state = OFFLINE /\ state' # OFFLINE) =>
              \/ \E t \in TaskIds : tasks[t] = "ping" /\ tasks'[t] # "ping"
              \/ compat'.post < compat.post
              \/ \E c \in Callers : CallToolRequestEnds(c)]_vars

\* A tool call entered while OFFLINE has returned 'not available' without
\* sending, and the state is still OFFLINE.
C30_Witness ==
    /\ call["c1"].pc = "done"
    /\ call["c1"].entry_state = OFFLINE
    /\ call["c1"].calls = 0
    /\ call["c1"].ret = create_error_response(Msg(NOT_AVAILABLE, None), None)
    /\ state = OFFLINE

\* the frame of a read-only call that gave up: every one of its
\* retry_max_attempts + 1 attempts failed on a connection error or a timeout
Exhausted(c) ==
    /\ Done(c)
    /\ ReadOnlyTool(call[c].tool_name)
    /\ call[c].calls = MaxRetries + 1
    /\ call[c].failures = call[c].calls

\* no request has completed since the last attempt of the call that gave up
\* (so no probe has succeeded since)
NothingSinceLastAttempt ==
    observed.by = "call_tool" /\ observed.outcome \in FailureOutcomes

\* C31 as stated: when a read-only call has exhausted its retries on
\* connection or timeout failures the state is OFFLINE, and the next
\* call_tool, with no probe success in between, is rejected as 'unavailable'
\* without any transport invocation.
C31_Original ==
    [][\A c \in Callers :
           /\ (call[c].pc = "post" /\ Exhausted(c)') => state' = OFFLINE
           /\ (Exhausted(c) /\ NothingSinceLastAttempt /\ CallToolEnters(c)) =>
                  /\ call'[c].pc = "done"
                  /\ call'[c].calls = 0
                  /\ call'[c].ret = create_error_response(Msg(NOT_AVAILABLE, None), None)]_vars

\* C31 amended: the step in which a read-only call gives up after
\* retry_max_attempts + 1 connection or timeout failures leaves the state
\* OFFLINE; the next call_tool, entered before any other request has
\* completed, returns in the same step without a probe or a transport
\* invocation and leaves the state OFFLINE: it is rejected as 'not found'
\* when its name is missing from a non-empty catalogue, and as 'unavailable'
\* otherwise.
C31_Amended ==
    [][\A c \in Callers :
           /\ (call[c].pc = "post" /\ Exhausted(c)') => state' = OFFLINE
           /\ (Exhausted(c) /\ NothingSinceLastAttempt /\ CallToolEnters(c)) =>
                  /\ state = OFFLINE
                  /\ state' = OFFLINE
                  /\ call'[c].pc = "done"
                  /\ call'[c].calls = 0
                  /\ call'[c].probes = 0
                  /\ call'[c].ret =
                        IF ToolNotFound(cached_proxy_tool_definitions, call'[c].tool_name)
                        THEN create_error_response(Msg(NOT_FOUND, call'[c].tool_name), None)
                        ELSE create_error_response(Msg(NOT_AVAILABLE, None), None)]_vars

\* A read-only call has given up after a retry, its last attempt timed out,
\* nothing has completed since and the state is OFFLINE: the next call_tool
\* can be entered.
C31_Witness ==
    /\ Exhausted("c1")
    /\ call["c1"].calls = 2
    /\ call["c1"].raised = "TimeoutError"
    /\ NothingSinceLastAttempt
    /\ state = OFFLINE

\* call_tool is entered on a fresh client: "settings.health_check_start_on_first_call
\* and not client._health_check_started", with the state still UNKNOWN
FreshClientEnters(c) ==
    /\ CallToolEnters(c)
    /\ settings.health_check_start_on_first_call
    /\ ~_health_check_started
    /\ state = UNKNOWN

\* the immediate probe of caller c's call_tool completes
ProbeEnds(c) == call[c].pc = "probe" /\ call'[c] # call[c]

\* C32 as stated: the first tool call of a fresh client (state UNKNOWN, lazy
\* start enabled) awaits the immediate probe before anything else; the probe's
\* completion sets the state and call_tool tests it in the same step: after a
\* connection failure or timeout the call returns 'unavailable' with no
\* tools/call sent, otherwise it is forwarded.
C32_Original ==
    [][\A c \in Callers :
           /\ FreshClientEnters(c) =>
                  /\ call'[c].pc = "probe"
                  /\ call'[c].calls = 0
                  /\ state' = UNKNOWN
           /\ ProbeEnds(c) =>
                  /\ observed'.by = "probe"
                  /\ IF observed'.outcome \in FailureOutcomes
                     THEN /\ state' = OFFLINE
                          /\ call'[c].pc = "done"
                          /\ call'[c].calls = 0
                          /\ call'[c].ret =
                                create_error_response(Msg(NOT_AVAILABLE, None), None)
                     ELSE /\ state' = ONLINE
                          /\ call'[c].pc = "post"
                          /\ call'[c].calls = 1]_vars

\* C32 amended: as stated for a tool that passes the catalogue test (its name
\* is in the catalogue, or the catalogue is empty); a name missing from a
\* non-empty catalogue is rejected as 'not found' once the probe has
\* completed, whatever the probe found, and is never forwarded.
C32_Amended ==
    [][\A c \in Callers :
           /\ FreshClientEnters(c) =>
                  /\ call'[c].pc = "probe"
                  /\ call'[c].calls = 0
                  /\ state' = UNKNOWN
           /\ ProbeEnds(c) =>
                  /\ observed'.by = "probe"
                  /\ state' = IF observed'.outcome \in FailureOutcomes
                              THEN OFFLINE ELSE ONLINE
                  /\ IF ToolNotFound(cached_proxy_tool_definitions, call[c].tool_name)
                     THEN /\ call'[c].pc = "done"
                          /\ call'[c].calls = 0
                          /\ call'[c].ret =
                                create_error_response(Msg(NOT_FOUND, call[c].tool_name),
                                                      None)
                     ELSE IF observed'.outcome \in FailureOutcomes
                     THEN /\ call'[c].pc = "done"
                          /\ call'[c].calls = 0
                          /\ call'[c].ret =
                                create_error_response(Msg(NOT_AVAILABLE, None), None)
                     ELSE /\ call'[c].pc = "post"
                          /\ call'[c].calls = 1]_vars

\* The first call of a fresh client, for a catalogued tool, has returned
\* 'unavailable' after its probe could not connect; no tools/call was sent.
C32_Witness ==
    /\ call["c1"].pc = "done"
    /\ call["c1"].entry_state = UNKNOWN
    /\ call["c1"].tool_name = "get_project_config"
    /\ call["c1"].probes = 1
    /\ call["c1"].calls = 0
    /\ call["c1"].ret = create_error_response(Msg(NOT_AVAILABLE, None), None)
    /\ observed.by = "probe"
    /\ observed.outcome = "connect_error"
    /\ observed.before = UNKNOWN
    /\ state = OFFLINE

\* a step in which caller c's call_tool reaches its tests of the catalogue and
\* of the state: its entry when no probe is awaited, or the completion of its probe
CallToolTests(c) ==
    \/ CallToolEnters(c) /\ call'[c].pc # "probe"
    \/ ProbeEnds(c)

\* C33: only OFFLINE short-circuits a call for a catalogued tool.  When
\* call_tool tests the state and finds UNKNOWN (lazy start disabled, or the
\* health check started, and nothing has answered yet) or ONLINE, the call is
\* forwarded in that step through call_tool_with_retry, which classifies the
\* tool and starts from retry_initial_delay; when it finds OFFLINE the call
\* returns 'unavailable' with nothing sent; a call entered in state UNKNOWN
\* with lazy start disabled awaits no probe and leaves the state UNKNOWN.
C33_OnlyOfflineShortCircuits ==
    [][\A c \in Callers :
           /\ (CallToolTests(c) /\ InCatalogue(call'[c].tool_name)) =>
                  IF state' = OFFLINE
                  THEN /\ call'[c].pc = "done"
                       /\ call'[c].calls = 0
                       /\ call'[c].ret =
                             create_error_response(Msg(NOT_AVAILABLE, None), None)
                  ELSE /\ call'[c].pc = "post"
                       /\ call'[c].calls = 1
                       /\ call'[c].attempt = 0
                       /\ call'[c].is_read_only = ReadOnlyTool(call'[c].tool_name)
                       /\ call'[c].delay = settings.delays.retry_initial_delay
           /\ (CallToolEnters(c) /\ state = UNKNOWN
                  /\ ~settings.health_check_start_on_first_call) =>
                  /\ call'[c].pc # "probe"
                  /\ call'[c].probes = 0
                  /\ state' = UNKNOWN]_vars

\* A catalogued tool was called with lazy start disabled, no probe ran, the
\* call was forwarded while the state was UNKNOWN and is awaiting its answer.
C33_Witness ==
    /\ call["c1"].pc = "post"
    /\ call["c1"].entry_state = UNKNOWN
    /\ call["c1"].probes = 0
    /\ call["c1"].calls = 1
    /\ InCatalogue(call["c1"].tool_name)
    /\ ~settings.health_check_start_on_first_call
    /\ state = UNKNOWN

\* caller c's call_tool is suspended in an await
Suspended(c) == call[c].pc \in {"probe", "post", "sleep"}

\* C34: every call_tool invocation returns, provided each request, probe and
\* sleep it awaits ends; it performs at most one immediate probe, at most
\* retry_max_attempts + 1 transport invocations and at most
\* retry_max_attempts backoff waits.
C34_CallReturns ==
    /\ [](\A c \in Callers :
              /\ call[c].probes <= 1
              /\ call[c].calls <= MaxRetries + 1
              /\ Len(call[c].waits) <= MaxRetries)
    /\ \A c \in Callers : Suspended(c) ~> Done(c)

\* A call has returned after one probe, retry_max_attempts + 1 invocations
\* and retry_max_attempts waits, with the largest number of retries.
C34_Witness ==
    /\ Done("c1")
    /\ call["c1"].probes = 1
    /\ MaxRetries = MaxRetryAttempts
    /\ call["c1"].calls = MaxRetries + 1
    /\ Len(call["c1"].waits) = MaxRetries

\* C35 as stated: whenever the state is ONLINE, last_known_good_connection
\* is set (not None); and a request that wrote the timestamp had received a
\* response from the backend.
C35_Original ==
    /\ state = ONLINE => last_known_good_connection # 0
    /\ observed.lkg_after # observed.lkg_before => ResponseReceived(observed.outcome)

\* handle_tool_result has returned, and what it was given is a structured
\* error that create_error_response produces
ErrorResponses == { ErrorResponse(m, c) : m \in ErrorMessages, c \in ErrorCodes }
ErrorPassed ==
    /\ fn.op = "handle_tool_result"
    /\ fn.done
    /\ fn.input \in ErrorResponses

\* C36: handle_tool_result applied to a structured error of
\* create_error_response returns a structured error with the same message
\* and the same code, i.e. the very dict it was given; so applying it to its
\* own return value (a second pass) returns that value again.
C36_ErrorsPassUnchanged ==
    ErrorPassed =>
        LET body == JsonLoads(fn.input.content.items[1].text)
        IN  /\ fn.output.kind = "error"
            /\ fn.output.value.isError
            /\ fn.output.value.error[1] = body.error
            /\ fn.output.value.code = body.code
            /\ ErrorResponseOf(fn.output.value) = fn.input

\* A structured error with a code went through handle_tool_result twice and
\* came out with its message and its code.
C36_Witness ==
    /\ ErrorPassed
    /\ fn.passes = 2
    /\ fn.input = ErrorResponse("X", "test_code")
    /\ fn.output.value.error[1] = "X"
    /\ fn.output.value.code = "test_code"

\* check_tool_compatibility has returned
CompatChecked == fn.op = "check_tool_compatibility" /\ fn.done

\* the backend tools the loop of check_tool_compatibility went through
ToolsSeen ==
    IF fn.output.log = "Tool discovery completed" /\ fn.input.outcome = "result"
    THEN fn.input.backend_tools ELSE <<>>

\* the tool has a name and the proxy definitions hold no entry for it
Undeclared(tool) == tool.name # Absent /\ tool.name \notin DOMAIN fn.input.cached

\* C37: check_tool_compatibility sends tools/list exactly when the state is
\* ONLINE as it runs; in state UNKNOWN or OFFLINE it sends nothing and looks
\* at no tool.  A named backend tool without a proxy definition is logged as
\* undeclared and is not counted: compatibility_issues_found is the number
\* of backend tools that have a proxy definition and for which
\* compare_tool_definitions returns issues.
C37_CompatibilityCheck ==
    CompatChecked =>
        /\ fn.output.sent <=> fn.input.state = ONLINE
        /\ fn.input.state # ONLINE =>
               /\ fn.output.verdicts = <<>>
               /\ fn.output.compatibility_issues_found = 0
        /\ Len(fn.output.verdicts) = Len(ToolsSeen)
        /\ \A i \in 1..Len(ToolsSeen) :
               Undeclared(ToolsSeen[i]) <=> fn.output.verdicts[i] = "undeclared"
        /\ fn.output.compatibility_issues_found =
               Cardinality({ i \in 1..Len(ToolsSeen) :
                   /\ ToolsSeen[i].name # Absent
                   /\ ~Undeclared(ToolsSeen[i])
                   /\ compare_tool_definitions(fn.input.cached[ToolsSeen[i].name],
                                               ToolsSeen[i]) # <<>> })

\* The backend listed an undeclared tool and a declared tool that lacks a
\* required field: one issue was counted, the undeclared tool was logged.
C37_Witness ==
    /\ CompatChecked
    /\ fn.input.state = ONLINE
    /\ fn.output.sent
    /\ Len(ToolsSeen) = 2
    /\ fn.output.verdicts = <<"undeclared", "issue">>
    /\ fn.output.compatibility_issues_found = 1

\* compare_tool_definitions has returned for definitions whose names differ
\* (a missing name differs from every name)
NamesDiffer == ComparedAny /\ fn.input.cached.name # fn.input.backend.name

\* C38: when the proxy and the backend definition carry different names,
\* compare_tool_definitions returns exactly one issue, the name mismatch with
\* both names, whatever the schemas are: no missing-field or type issue is
\* reported.
C38_NameMismatchOnly ==
    NamesDiffer =>
        /\ Len(fn.output) = 1
        /\ fn.output[1] = Issue("Name mismatch", <<>>, fn.input.cached.name,
                                fn.input.backend.name)
        /\ IssuesOfKind("Missing required fields in proxy schema") = <<>>
        /\ IssuesOfKind("Type mismatch for required field") = <<>>

\* The names differ, the backend requires a field the proxy lacks and one
\* whose types are incompatible, and the name mismatch is the only issue.
C38_Witness ==
    /\ NamesDiffer
    /\ fn.input.cached.name = "u"
    /\ fn.input.backend.name = "t"
    /\ fn.input.backend.inputSchema.required = <<"a", "b">>
    /\ DOMAIN fn.input.cached.inputSchema.properties = {"a"}
    /\ fn.input.cached.inputSchema.properties["a"].type = "string"
    /\ DOMAIN fn.input.backend.inputSchema.properties = {"a", "b"}
    /\ fn.input.backend.inputSchema.properties["a"].type = "integer"
    /\ Len(fn.output) = 1

====
